---- MODULE Spec2Model ----
(***************************************************************************)
(* Tool-calling orchestration engine of the climate agent:                 *)
(*   - the chat_with_tools loop of the four provider adapters              *)
(*     (providers/ollama.py, openai.py, anthropic.py, google.py),          *)
(*   - the tool router ClimateAgent.execute_tool (main.py),                *)
(*   - the tool transport client MCPClient (mcp_client.py).                *)
(***************************************************************************)
EXTENDS Integers, Sequences, FiniteSets, TLC

(***************************************************************************)
(* Bounds of the model                                                     *)
(***************************************************************************)
\* largest max_iterations argument explored (0..MaxIter)
MaxIter == 2
\* largest number of tool calls carried by one model response
MaxCalls == 2
\* the tool calls of a run that can find their tool server down: the first
\* MaxToolErrors
MaxToolErrors == 1
\* longest list of tool definitions that is converted
MaxTools == 2
\* register_provider calls that are made
MaxRegistrations == 3
\* tool calls a thermostat server handles
MaxServerCalls == 2
\* decisions that evaluation cycles log
MaxDecisions == 2
\* get_setting and update_setting calls that are made
MaxStoreCalls == 3

(***************************************************************************)
(* Values                                                                  *)
(***************************************************************************)
\* a key that is not present in a dict
Absent == "<absent>"
\* the fixed sentinel of the MAX_ITERATIONS outcome
Sentinel == "Max iterations reached"

Providers == {"ollama", "openai", "anthropic", "google"}

\* names routed by ClimateAgent.execute_tool
weather_tools == {"get_current_weather", "get_forecast"}
ha_tools == {"get_thermostat_state", "set_thermostat_temperature",
             "set_hvac_mode", "set_preset_mode"}

\* tool-definition lists a run may be given: what the two tool servers listed
\* at initialize (get_tools_for_llm of both clients); a server whose
\* tools/list reply carried no tools contributes nothing
SuppliedToolLists == {weather_tools \cup ha_tools, weather_tools}

\* JSON values are tagged with their Python type: a dict or a str
Dict(v) == [t |-> "dict", v |-> v]
Str(v) == [t |-> "str", v |-> v]
EmptyDict == Dict("{}")
TempDict == Dict("{temperature: 21}")
TempJson == Str("{\"temperature\": 21}")
EmptyJson == Str("{}")
BadJson == Str("{temperature: ")
WeatherDict == Dict("{temperature_c: 5.0}")
WeatherJson == Str("{\"temperature_c\": 5.0}")

\* json.loads on the text of a str: the decoded value, or "JSONDecodeError"
JSONDecodeError == [t |-> "JSONDecodeError", v |-> "Expecting value"]
json_loads(s) ==
    CASE s = TempJson.v -> TempDict
      [] s = EmptyJson.v -> EmptyDict
      [] s = WeatherJson.v -> WeatherDict
      [] OTHER -> JSONDecodeError

\* json.dumps of a dict
json_dumps(d) ==
    CASE d = TempDict -> TempJson.v
      [] d = EmptyDict -> EmptyJson.v
      [] d = WeatherDict -> WeatherJson.v
      [] OTHER -> "{" \o d.v \o "}"

(***************************************************************************)
(* Model replies on the wire, and chat(): the Wire Codec of each adapter   *)
(***************************************************************************)
\* exceptions a model request can end in
ModelExceptions == {"Timeout", "RateLimit"}
\* str(e) of such an exception
ExcText(e) == IF e = "Timeout" THEN "Request timed out." ELSE "429 Too Many Requests"

Contents == {"", "Holding at 21C."}

\* tool calls as each backend puts them on the wire (name, raw arguments)
WireCall(n, a) == [name |-> n, arguments |-> a]
\* the tool calls a model asks for, in the order of its plan: the weather,
\* the thermostat (Ollama and OpenAI encode arguments as JSON text, OpenAI
\* possibly cut short), a tool that no server has
WireCalls(p) ==
    CASE p = "ollama" ->
           <<WireCall("get_current_weather", EmptyDict),
             WireCall("set_thermostat_temperature", TempJson),
             WireCall("set_thermostat_temperature", TempJson),
             WireCall("open_garage_door", BadJson)>>
      [] p = "openai" ->
           <<WireCall("get_current_weather", Str("")),
             WireCall("set_thermostat_temperature", TempJson),
             WireCall("set_thermostat_temperature", BadJson),
             WireCall("open_garage_door", EmptyJson)>>
      [] OTHER ->
           <<WireCall("get_current_weather", EmptyDict),
             WireCall("set_thermostat_temperature", TempDict),
             WireCall("set_thermostat_temperature", TempDict),
             WireCall("open_garage_door", EmptyDict)>>

\* the lists of k tool calls one reply can carry: k consecutive calls of the
\* plan, starting anywhere and wrapping around
Windows(plan, k) ==
    {[i \in 1..k |-> plan[((start + i - 2) % Len(plan)) + 1]] : start \in 1..Len(plan)}

CallLists(p) == {<<>>} \cup UNION {Windows(WireCalls(p), k) : k \in 1..MaxCalls}

StopReasons(p, calls) ==
    IF p # "anthropic" THEN {Absent}
    ELSE IF calls = <<>> THEN {"end_turn"} ELSE {"tool_use", "end_turn"}

\* the text that can come with a list of tool calls: any text with no or
\* one call, none with several
ContentsWith(cs) == IF Len(cs) <= 1 THEN Contents ELSE {""}

\* what one model request can come back with: an exception, or a reply
WireReplies(p) ==
    {[exc |-> e, content |-> "", calls |-> <<>>, stop_reason |-> Absent] : e \in ModelExceptions}
    \cup
    UNION {UNION {{[exc |-> Absent, content |-> c, calls |-> cs, stop_reason |-> sr]
                    : sr \in StopReasons(p, cs)} : c \in ContentsWith(cs)}
            : cs \in CallLists(p)}

\* ids of the tool calls of the n-th model reply: the hosted APIs assign
\* fresh ids, Ollama has none, Gemini's is the function name
CallId(p, n, i, name) ==
    CASE p = "ollama" -> Absent
      [] p = "google" -> name
      [] OTHER -> <<"call", n, i>>

ToolCall(id, n, a) == [id |-> id, function |-> [name |-> n, arguments |-> a]]

ErrorResponse(e) == [error |-> e, content |-> "", tool_calls |-> <<>>, stop_reason |-> Absent]
OkResponse(c, tcs, sr) == [error |-> Absent, content |-> c, tool_calls |-> tcs, stop_reason |-> sr]

\* OpenAIProvider.chat line 104: json.loads(arguments) if arguments else {}
OpenAIArguments(raw) == IF raw.v = "" THEN EmptyDict ELSE json_loads(raw.v)

\* the tool calls parsed from a reply (the n-th of the run)
ParsedCalls(p, n, wire) ==
    [i \in 1..Len(wire.calls) |->
        ToolCall(CallId(p, n, i, wire.calls[i].name),
                 wire.calls[i].name,
                 IF p = "openai" THEN OpenAIArguments(wire.calls[i].arguments)
                 ELSE wire.calls[i].arguments)]

\* OllamaProvider.chat, OpenAIProvider.chat, AnthropicProvider.chat: one
\* request/response turn, the n-th request of the run
chat(p, n, wire) ==
    IF wire.exc # Absent
    THEN IF wire.exc = "Timeout" THEN ErrorResponse("timeout")
         ELSE IF wire.exc = "RateLimit" /\ p \in {"openai", "anthropic"}
              THEN ErrorResponse("rate_limited")
              ELSE ErrorResponse(ExcText(wire.exc))
    ELSE IF p = "openai"
              /\ \E i \in 1..Len(wire.calls) :
                    OpenAIArguments(wire.calls[i].arguments) = JSONDecodeError
         THEN ErrorResponse(JSONDecodeError.v)
         ELSE OkResponse(wire.content, ParsedCalls(p, n, wire), wire.stop_reason)

\* LLMProvider.parse_tool_calls
parse_tool_calls(response) == response.tool_calls

(***************************************************************************)
(* The tool executor                                                       *)
(***************************************************************************)
\* what MCPClient.call_tool hands back for a tool of a server: the decoded
\* payload of the reply, or an error result
Payload(name) == Dict("result of " \o name)
ConnectionError == Dict("error: Connection error: All connection attempts failed")
CallToolResults(name) == {Payload(name), ConnectionError}

\* can the tool call made after the recorded ones find its server down
ServerMayBeDown(made) == Len(made) < MaxToolErrors

\* fault: every tool name is routed to the Home Assistant client
Route_AllToHa(tool_name) == "ha"

UnknownTool(name) == Dict("error: Unknown tool: " \o name)

\* ClimateAgent.execute_tool / api_chat_send.execute_tool: the server a
\* tool name is routed to
Route(tool_name) ==
    IF tool_name \in weather_tools THEN "weather"
    ELSE IF tool_name \in ha_tools THEN "ha"
    ELSE "none"

\* the results execute_tool can return
execute_tool(tool_name) ==
    IF Route(tool_name) = "none" THEN {UnknownTool(tool_name)}
    ELSE CallToolResults(tool_name)

\* content of a tool-result message:
\* json.dumps(tool_result) if isinstance(tool_result, dict) else str(tool_result)
ResultContent(tool_result) ==
    IF tool_result.t = "dict" THEN json_dumps(tool_result) ELSE tool_result.v

(***************************************************************************)
(* State of one chat_with_tools run                                        *)
(***************************************************************************)
VARIABLES
    provider,          \* the adapter the run is made on
    tools,             \* names of the tool definitions given to the run
    max_iterations,    \* the max_iterations argument
    system_prompt,     \* the system_prompt argument
    pc,                \* where the run is
    iteration,         \* the loop variable of `for iteration in range(...)`
    messages,          \* the conversation history (Gemini: the chat session)
    tool_calls_made,   \* the ToolCallRecords
    response,          \* the last model response
    tool_calls,        \* the tool calls of the turn being executed
    next_call,         \* index in tool_calls of the call executed next
    turn_results,      \* Anthropic tool_results / Gemini function_responses
    result,            \* the dict the run returned
    payload,           \* the request the last chat() call sent
    \* history variables, read by the properties only
    chat_calls,        \* number of model requests made
    requested,         \* every tool call of every received reply, in order
    invoked,           \* executor invocations (name, arguments), in order
    dispatched,        \* (server, tool name) of every tools/call sent
    heard              \* what the run awaited and got: replies and tool results

runVars == <<provider, tools, max_iterations, system_prompt, payload, pc, iteration, messages,
             tool_calls_made, response, tool_calls, next_call, turn_results,
             result, chat_calls, requested, invoked, dispatched, heard>>

(***************************************************************************)
(* A second chat_with_tools run on the same provider instance              *)
(***************************************************************************)
VARIABLES
    current,           \* the run the event loop is executing
    parked             \* the locals of the run that is suspended at an await

pairVars == <<current, parked>>

(***************************************************************************)
(* State of one MCPClient and of the call_tool it is running               *)
(***************************************************************************)
VARIABLES
    server_name,       \* the tool server the client talks to
    mcp_pc,            \* where call_tool is
    mcp_name,          \* the tool name of the call
    attempt_number,    \* tenacity's attempt number of _make_request
    mcp_result,        \* what call_tool returned
    mcp_method,        \* the JSON-RPC method of the request being made
    self_tools,        \* self.tools: names of the cached tool metadata
    init_returns,      \* what initialize returned
    \* history variables, read by the properties only
    mcp_reply,         \* the reply received to the last POST
    posts,             \* outcome of every HTTP POST of this call, in order
    waits,             \* seconds slept between the attempts, in order
    sent               \* method and outcome of every POST of initialize, in order

mcpVars == <<server_name, mcp_pc, mcp_name, attempt_number, mcp_result,
             mcp_method, self_tools, init_returns, mcp_reply, posts, waits, sent>>

(***************************************************************************)
(* State of the provider registry and of the callers of                    *)
(* create_llm_provider                                                     *)
(***************************************************************************)
VARIABLES
    PROVIDER_REGISTRY, \* _PROVIDER_REGISTRY: lower-case name -> provider class
    installed,         \* providers whose module imports without ImportError
    environ,           \* os.environ
    threads,           \* the threads that call create_llm_provider
    f_pc,              \* where each caller is
    f_args,            \* the arguments of each caller's call
    f_provider,        \* each caller's local `provider`
    f_next,            \* index of the provider each caller registers next
    f_out,             \* what each caller's call returned or raised
    \* history variable, read by the properties only
    f_unknown          \* the callers that got an "Unknown LLM provider" error

factoryVars == <<PROVIDER_REGISTRY, installed, environ, threads, f_pc, f_args,
                 f_provider, f_next, f_out, f_unknown>>

(***************************************************************************)
(* State of one conversion of tool definitions to a provider's format      *)
(***************************************************************************)
VARIABLES
    conv_provider,     \* the adapter that converts
    conv_tools,        \* the tool definitions given to it
    conv_pc,           \* where the conversion is
    converted          \* the provider-native tools it made

convVars == <<conv_provider, conv_tools, conv_pc, converted>>

(***************************************************************************)
(* A second call_tool on the same MCPClient, and its health_check          *)
(***************************************************************************)
VARIABLES
    call_parked,       \* the locals of the call_tool that is suspended
    health_returns     \* what the last health_check returned

callVars == <<call_parked, health_returns>>

(***************************************************************************)
(* Callers of register_provider                                            *)
(***************************************************************************)
VARIABLES
    registrations      \* the register_provider calls made, in order

regVars == <<registrations>>

(***************************************************************************)
(* State of the ClimateAgent                                               *)
(***************************************************************************)
VARIABLES
    agent_pc,          \* where ClimateAgent.initialize is
    agent_settings,    \* the settings in the decision store
    agent_steps,       \* what initialize did so far, in order
    initialized,       \* self.initialized
    agent_returns      \* what initialize returned

agentVars == <<agent_pc, agent_settings, agent_steps, initialized, agent_returns>>

(***************************************************************************)
(* State of the thermostat tool servers and of what they sent upstream     *)
(***************************************************************************)
VARIABLES
    ha_writes,         \* data of every climate/set_temperature service call
    ecobee_writes,     \* params of every setHold sent by update_thermostat
    tool_texts         \* what every set_thermostat_temperature call returned

serverVars == <<ha_writes, ecobee_writes, tool_texts>>

(***************************************************************************)
(* State of the application: the startup task, the scheduled evaluation    *)
(* job, the evaluation cycles and the shutdown of main.lifespan            *)
(***************************************************************************)
VARIABLES
    services_up,       \* does the LLM service answer its health check
    startup_pc,        \* where the startup() task is
    eval_pc,           \* where the run_evaluation of each caller is
    eval_result,       \* what chat_with_tools gave each run_evaluation
    last_cycle,        \* how the last run_evaluation of each caller ended
    active_evaluation, \* _active_evaluation: the tracked task, or None
    shutdown_pc,       \* where the shutdown half of lifespan is
    waited,            \* what lifespan's wait for the tracked task came to
    abandoned,         \* evaluations in progress when the scheduler was shut down
    decisions          \* the decisions logged by log_decision, in order

appVars == <<services_up, startup_pc, eval_pc, eval_result, last_cycle,
             active_evaluation, shutdown_pc, waited, abandoned, decisions>>

(***************************************************************************)
(* State of the settings table and of the callers of get_setting and       *)
(* update_setting                                                          *)
(***************************************************************************)
VARIABLES
    stored,            \* value of the row of the key, or no row
    store_pc,          \* where each caller is
    store_default,     \* the default each caller of get_setting passed
    store_returns,     \* what the last call of each caller returned or raised
    store_calls        \* the calls begun so far

storeVars == <<stored, store_pc, store_default, store_returns, store_calls>>

\* what the runs, the clients and the factory leave alone
sideVars == <<convVars, callVars, regVars, agentVars, serverVars, appVars, storeVars>>

NoResponse == OkResponse("", <<>>, Absent)
NoArguments == [t |-> "none", v |-> ""]
\* a returned dict is modelled by its set of keys and their values (a key
\* that is not in keys has a placeholder value)
NoResult == [keys |-> {}, error |-> Absent, final_response |-> Absent,
             tool_calls_made |-> <<>>, iterations |-> 0]

Terminal == {"done", "error", "max_iterations"}

\* entries of heard: a model reply, or what the executor did for a tool call
NoCall == ToolCall("", "", NoArguments)
Raised == [t |-> "raised", v |-> "tool executor failed"]
HeardReply(r) ==
    [kind |-> "reply", response |-> r, call |-> NoCall, args |-> NoArguments,
     result |-> NoArguments]
HeardTool(call, args, res) ==
    [kind |-> "tool", response |-> NoResponse, call |-> call, args |-> args,
     result |-> res]

\* the system_prompt argument: None, or a prompt
SystemPrompts == {Absent, "You are a climate agent."}

\* `if system_prompt:`
Truthy(s) == s # Absent /\ s # ""

SystemMessage(s) == [role |-> "system", content |-> s]

NoPayload == [messages |-> <<>>, system |-> Absent]

\* chat(): the messages and the system field of the request that is sent
ChatPayload(p, s, msgs) ==
    CASE p \in {"ollama", "openai"} ->
           [messages |-> IF Truthy(s) THEN <<SystemMessage(s)>> \o msgs ELSE msgs,
            system |-> Absent]
      [] OTHER ->
           [messages |-> msgs, system |-> IF Truthy(s) THEN s ELSE Absent]

\* fault: the system message is inserted into the list that was passed in
MessagesAfterChat_InPlace(p, s, msgs) == ChatPayload(p, s, msgs).messages

\* the caller's list after chat() returned:
\* `messages = [{"role": "system", ...}] + messages` binds a new list
MessagesAfterChat(p, s, msgs) == msgs

InitRun ==
    /\ provider \in Providers
    /\ tools \in SuppliedToolLists
    /\ max_iterations \in 0..MaxIter
    /\ system_prompt \in SystemPrompts
    /\ payload = NoPayload
    /\ pc = "start"
    /\ iteration = 0
    /\ messages = <<>>
    /\ tool_calls_made = <<>>
    /\ response = NoResponse
    /\ tool_calls = <<>>
    /\ next_call = 1
    /\ turn_results = <<>>
    /\ result = NoResult
    /\ chat_calls = 0
    /\ requested = <<>>
    /\ invoked = <<>>
    /\ dispatched = <<>>
    /\ heard = <<>>

\* fault: the records collected so far are lost
ErrorResult_NoRecords(e, made) ==
    [keys |-> {"error", "final_response", "tool_calls_made"},
     error |-> e, final_response |-> "", tool_calls_made |-> <<>>, iterations |-> 0]

\* the three dicts a run returns
ErrorResult(e, made) ==
    [keys |-> {"error", "final_response", "tool_calls_made"},
     error |-> e, final_response |-> "", tool_calls_made |-> made, iterations |-> 0]
DoneResult(text, made, iters) ==
    [keys |-> {"final_response", "tool_calls_made", "iterations"},
     error |-> Absent, final_response |-> text, tool_calls_made |-> made, iterations |-> iters]
MaxIterationsResult(made, iters) ==
    [keys |-> {"final_response", "tool_calls_made", "iterations"},
     error |-> Absent, final_response |-> Sentinel, tool_calls_made |-> made, iterations |-> iters]

UserMessage == [role |-> "user", content |-> "Evaluate the thermostat."]

\* fault: one pass too many
RangeHasNext_Inclusive(i, n) == i <= n

\* `for iteration in range(max_iterations)`: is there a pass number i
RangeHasNext(i, n) == i < n

\* fault: the record is put in front
AppendRecord_Prepend(made, record) == <<record>> \o made

\* fault: the executed call leaves no record
AppendRecord_Skipped(made, record) == made

\* tool_calls_made.append(record)
AppendRecord(made, record) == Append(made, record)

(***************************************************************************)
(* chat_with_tools                                                         *)
(***************************************************************************)
\* entry of chat_with_tools up to the first evaluation of the for loop
StartRun ==
    /\ pc = "start"
    /\ messages' = IF provider = "google" THEN <<>> ELSE <<UserMessage>>
    /\ tool_calls_made' = <<>>
    /\ IF RangeHasNext(0, max_iterations)
       THEN /\ pc' = "await_model"
            /\ result' = result
       ELSE /\ pc' = "max_iterations"
            /\ result' = MaxIterationsResult(<<>>, max_iterations)
    /\ UNCHANGED <<system_prompt, payload, provider, tools, max_iterations, iteration, response,
                   tool_calls, next_call, turn_results, chat_calls, requested,
                   invoked, dispatched, heard>>
    /\ UNCHANGED mcpVars
    /\ UNCHANGED factoryVars
    /\ UNCHANGED pairVars
    /\ UNCHANGED sideVars

\* the assistant message appended to the history for a turn with tool calls
AssistantMessage(p, r, tcs) ==
    CASE p = "ollama" ->
           [role |-> "assistant", content |-> r.content, tool_calls |-> tcs]
      [] p = "openai" ->
           [role |-> "assistant",
            content |-> IF r.content = "" THEN "None" ELSE r.content,
            tool_calls |-> [i \in 1..Len(tcs) |->
                [id |-> tcs[i].id, type |-> "function",
                 function |-> [name |-> tcs[i].function.name,
                               arguments |-> json_dumps(tcs[i].function.arguments)]]]]
      [] OTHER ->
           [role |-> "assistant",
            content |->
               (IF r.content # "" THEN <<[type |-> "text", text |-> r.content]>> ELSE <<>>)
               \o [i \in 1..Len(tcs) |->
                     [type |-> "tool_use", id |-> tcs[i].id,
                      name |-> tcs[i].function.name,
                      input |-> tcs[i].function.arguments]]]

\* the test that ends the run as DONE after a successful model response
IsFinal(p, r, tcs) ==
    IF p = "anthropic" THEN tcs = <<>> \/ r.stop_reason = "end_turn"
    ELSE tcs = <<>>

\* the tool calls of the n-th model reply, as entries of `requested`
Requests(tcs, n) ==
    [i \in 1..Len(tcs) |->
        [turn |-> n, name |-> tcs[i].function.name, arguments |-> tcs[i].function.arguments]]

\* Ollama, OpenAI, Anthropic: one pass from the top of the loop body to the
\* first tool execution (or to a return)
ModelTurn ==
    /\ pc = "await_model"
    /\ provider # "google"
    /\ payload' = ChatPayload(provider, system_prompt, messages)
    /\ \E wire \in WireReplies(provider) :
        LET r == chat(provider, chat_calls + 1, wire)
            tcs == parse_tool_calls(r)
            history == MessagesAfterChat(provider, system_prompt, messages)
        IN  /\ response' = r
            /\ chat_calls' = chat_calls + 1
            /\ IF r.error # Absent
               THEN /\ pc' = "error"
                    /\ result' = ErrorResult(r.error, tool_calls_made)
                    /\ messages' = history
                    /\ UNCHANGED <<tool_calls, next_call, turn_results, requested>>
               ELSE /\ requested' = requested \o Requests(tcs, chat_calls + 1)
                    /\ IF IsFinal(provider, r, tcs)
                       THEN /\ pc' = "done"
                            /\ result' = DoneResult(r.content, tool_calls_made, iteration + 1)
                            /\ messages' = history
                            /\ UNCHANGED <<tool_calls, next_call, turn_results>>
                       ELSE /\ pc' = "exec_tools"
                            /\ messages' = Append(history, AssistantMessage(provider, r, tcs))
                            /\ tool_calls' = tcs
                            /\ next_call' = 1
                            /\ turn_results' = <<>>
                            /\ result' = result
    /\ heard' = Append(heard, HeardReply(response'))
    /\ UNCHANGED <<system_prompt, provider, tools, max_iterations, iteration,
                   tool_calls_made, invoked, dispatched>>
    /\ UNCHANGED mcpVars
    /\ UNCHANGED factoryVars
    /\ UNCHANGED pairVars
    /\ UNCHANGED sideVars

\* fault: a string that is not valid JSON is passed on as it is
ToolArgs_NoFallback(p, raw) ==
    IF p = "ollama" /\ raw.t = "str" /\ json_loads(raw.v) # JSONDecodeError
    THEN json_loads(raw.v)
    ELSE raw

\* the arguments the executor is called with
\* (Ollama: "Handle arguments that might be a string")
ToolArgs(p, raw) ==
    IF p = "ollama" /\ raw.t = "str"
    THEN IF json_loads(raw.v) = JSONDecodeError THEN EmptyDict ELSE json_loads(raw.v)
    ELSE raw

\* fault: the record keeps the arguments where the result belongs
ToolCallRecord_NoResult(name, args, res) == [tool |-> name, arguments |-> args, result |-> args]

\* tool_calls_made.append({"tool": ..., "arguments": ..., "result": ...})
ToolCallRecord(name, args, res) == [tool |-> name, arguments |-> args, result |-> res]

\* what a tool result adds to the history / to the results of the turn
ToolMessage(p, tool_call, name, res) ==
    CASE p = "ollama" -> [role |-> "tool", content |-> ResultContent(res)]
      [] p = "openai" -> [role |-> "tool", tool_call_id |-> tool_call.id,
                          content |-> ResultContent(res)]
      [] p = "anthropic" -> [type |-> "tool_result", tool_use_id |-> tool_call.id,
                             content |-> ResultContent(res)]
      [] OTHER -> [name |-> name, response |-> [result |-> res]]

\* fault: the loop over the tool calls is left after its first pass
IsLastCall_First(i, tcs) == TRUE

\* `for tool_call in tool_calls`: is the i-th tool call the last one
IsLastCall(i, tcs) == i = Len(tcs)

\* one pass of `for tool_call in tool_calls` whose executor call returns,
\* and, after the last tool call, the code up to the next await or return
ExecuteTool ==
    /\ pc = "exec_tools"
    /\ \E tool_result \in execute_tool(tool_calls[next_call].function.name) :
        LET tool_call == tool_calls[next_call]
            tool_name == tool_call.function.name
            tool_args == ToolArgs(provider, tool_call.function.arguments)
            last == IsLastCall(next_call, tool_calls)
            made == AppendRecord(tool_calls_made, ToolCallRecord(tool_name, tool_args, tool_result))
            msg == ToolMessage(provider, tool_call, tool_name, tool_result)
        IN  /\ tool_result = ConnectionError => ServerMayBeDown(tool_calls_made)
            /\ invoked' = Append(invoked, [name |-> tool_name, arguments |-> tool_args])
            /\ heard' = Append(heard, HeardTool(tool_call, tool_args, tool_result))
            /\ dispatched' = IF Route(tool_name) = "none" THEN dispatched
                             ELSE Append(dispatched, [server |-> Route(tool_name), name |-> tool_name])
            /\ tool_calls_made' = made
            /\ messages' =
                 CASE provider \in {"ollama", "openai"} -> Append(messages, msg)
                   [] provider = "anthropic" /\ last ->
                        Append(messages, [role |-> "user", content |-> Append(turn_results, msg)])
                   [] OTHER -> messages
            /\ turn_results' = IF provider \in {"anthropic", "google"}
                               THEN Append(turn_results, msg) ELSE turn_results
            /\ next_call' = IF last THEN next_call ELSE next_call + 1
            /\ IF ~last
               THEN UNCHANGED <<pc, iteration, result>>
               ELSE IF provider = "google"
                    THEN /\ pc' = "send_results"
                         /\ UNCHANGED <<iteration, result>>
                    ELSE /\ iteration' = iteration + 1
                         /\ IF RangeHasNext(iteration + 1, max_iterations)
                            THEN /\ pc' = "await_model"
                                 /\ result' = result
                            ELSE /\ pc' = "max_iterations"
                                 /\ result' = MaxIterationsResult(made, max_iterations)
    /\ UNCHANGED <<system_prompt, payload, provider, tools, max_iterations, response, tool_calls,
                   chat_calls, requested>>
    /\ UNCHANGED mcpVars
    /\ UNCHANGED factoryVars
    /\ UNCHANGED pairVars
    /\ UNCHANGED sideVars

\* str(e) of the exception a tool-executor callback raises
ExecutorExcText == "tool executor failed"

\* one pass of `for tool_call in tool_calls` whose executor call raises:
\* only GoogleProvider has the call inside a try
ExecuteToolRaises ==
    /\ pc = "exec_tools"
    /\ LET tool_call == tool_calls[next_call]
           tool_name == tool_call.function.name
           tool_args == ToolArgs(provider, tool_call.function.arguments)
       IN  /\ invoked' = Append(invoked, [name |-> tool_name, arguments |-> tool_args])
           /\ heard' = Append(heard, HeardTool(tool_call, tool_args, Raised))
    /\ IF provider = "google"
       THEN /\ pc' = "error"
            /\ result' = ErrorResult(ExecutorExcText, tool_calls_made)
       ELSE /\ pc' = "raised"
            /\ result' = result
    /\ UNCHANGED <<system_prompt, payload, provider, tools, max_iterations, iteration, messages,
                   tool_calls_made, response, tool_calls, next_call,
                   turn_results, chat_calls, requested, dispatched>>
    /\ UNCHANGED mcpVars
    /\ UNCHANGED factoryVars
    /\ UNCHANGED pairVars
    /\ UNCHANGED sideVars

\* GoogleProvider.chat_with_tools: "Parse response" up to the first tool
\* execution (or the DONE return), in loop pass iter
GoogleParse(wire, iter) ==
    LET tcs == ParsedCalls("google", chat_calls + 1, wire)
    IN  /\ response' = OkResponse(wire.content, tcs, Absent)
        /\ requested' = requested \o Requests(tcs, chat_calls + 1)
        /\ IF tcs = <<>>
           THEN /\ pc' = "done"
                /\ result' = DoneResult(wire.content, tool_calls_made, iter + 1)
                /\ UNCHANGED <<tool_calls, next_call, turn_results>>
           ELSE /\ pc' = "exec_tools"
                /\ tool_calls' = tcs
                /\ next_call' = 1
                /\ turn_results' = <<>>
                /\ result' = result

\* GoogleProvider, pass 0: chat.send_message_async(user_message)
GoogleSendUserMessage ==
    /\ pc = "await_model"
    /\ provider = "google"
    /\ chat_calls' = chat_calls + 1
    /\ \E wire \in WireReplies(provider) :
        IF wire.exc # Absent
        THEN /\ pc' = "error"
             /\ response' = ErrorResponse(ExcText(wire.exc))
             /\ result' = ErrorResult(ExcText(wire.exc), tool_calls_made)
             /\ UNCHANGED <<tool_calls, next_call, turn_results, requested>>
        ELSE GoogleParse(wire, iteration)
    /\ heard' = Append(heard, HeardReply(response'))
    /\ UNCHANGED <<system_prompt, payload, provider, tools, max_iterations, iteration, messages,
                   tool_calls_made, invoked, dispatched>>
    /\ UNCHANGED mcpVars
    /\ UNCHANGED factoryVars
    /\ UNCHANGED pairVars
    /\ UNCHANGED sideVars

\* GoogleProvider, end of a pass: chat.send_message_async(function_responses),
\* then the next evaluation of the for loop and, if it goes on, the parse
GoogleSendToolResults ==
    /\ pc = "send_results"
    /\ chat_calls' = chat_calls + 1
    /\ \E wire \in WireReplies(provider) :
        IF wire.exc # Absent
        THEN /\ pc' = "error"
             /\ response' = ErrorResponse(ExcText(wire.exc))
             /\ result' = ErrorResult(ExcText(wire.exc), tool_calls_made)
             /\ UNCHANGED <<iteration, tool_calls, next_call, turn_results, requested>>
        ELSE /\ iteration' = iteration + 1
             /\ IF RangeHasNext(iteration + 1, max_iterations)
                THEN GoogleParse(wire, iteration + 1)
                ELSE \* the reply is assigned to `response` and never parsed
                     /\ pc' = "max_iterations"
                     /\ response' = OkResponse(wire.content,
                                        ParsedCalls("google", chat_calls + 1, wire), Absent)
                     /\ requested' = requested
                                        \o Requests(ParsedCalls("google", chat_calls + 1, wire), chat_calls + 1)
                     /\ result' = MaxIterationsResult(tool_calls_made, max_iterations)
                     /\ UNCHANGED <<tool_calls, next_call, turn_results>>
    /\ heard' = Append(heard, HeardReply(response'))
    /\ UNCHANGED <<system_prompt, payload, provider, tools, max_iterations, messages, tool_calls_made,
                   invoked, dispatched>>
    /\ UNCHANGED mcpVars
    /\ UNCHANGED factoryVars
    /\ UNCHANGED pairVars
    /\ UNCHANGED sideVars

(***************************************************************************)
(* MCPClient: _make_request under the tenacity retry decorator, call_tool  *)
(***************************************************************************)
\* @retry(stop=stop_after_attempt(3), wait=wait_exponential(multiplier=1, max=10),
\*        retry=retry_if_exception_type(httpx.RequestError), reraise=True)
StopAfterAttempt == 3
WaitMultiplier == 1
WaitMax == 10

Min(a, b) == IF a <= b THEN a ELSE b

\* tenacity wait_exponential: multiplier * 2^(attempt_number - 1), at most max
wait_exponential(n) == Min(WaitMultiplier * 2^(n - 1), WaitMax)

\* what the tool server can answer to the POST of a tools/call
TextBlock(text) == [type |-> "text", text |-> text]
ImageBlock == [type |-> "image", text |-> ""]
NoRpcError == [code |-> 0, message |-> ""]
HttpReply(status, json, has_error, error, content) ==
    [status |-> status, json |-> json, has_error |-> has_error, error |-> error,
     content |-> content]
RpcError(msg) == HttpReply(200, TRUE, TRUE, [code |-> -32603, message |-> msg], <<>>)
RpcResult(content) == HttpReply(200, TRUE, FALSE, NoRpcError, content)
HttpReplies ==
    {HttpReply(500, FALSE, FALSE, NoRpcError, <<>>),
     HttpReply(200, FALSE, FALSE, NoRpcError, <<>>),
     RpcError("Thermostat unavailable"),
     RpcResult(<<TextBlock(WeatherJson.v)>>),
     RpcResult(<<TextBlock("Thermostat is offline")>>),
     RpcResult(<<TextBlock(BadJson.v)>>),
     RpcResult(<<>>),
     RpcResult(<<ImageBlock>>)}

\* what a POST of _make_request that was answered ended in:
\* raise_for_status raises httpx.HTTPStatusError, response.json() raises
\* json.JSONDecodeError, neither is an httpx.RequestError
ReplyKind(reply) ==
    IF reply.status # 200 THEN "HTTPStatusError"
    ELSE IF ~reply.json THEN "JSONDecodeError"
    ELSE IF reply.has_error THEN "rpc_error"
    ELSE "rpc_result"

\* what call_tool returns: the decoded payload itself (returns = "payload"),
\* or a dict with the keys in keys
NoValue == [t |-> "none", v |-> ""]
McpResult(returns, keys, err, raw, perr, content, value) ==
    [returns |-> returns, keys |-> keys, error |-> err, raw_text |-> raw,
     parse_error |-> perr, content |-> content, payload |-> value]
NoMcpResult == McpResult("nothing", {}, "", "", "", <<>>, NoValue)
ErrorOnly(msg) == McpResult("dict", {"error"}, msg, "", "", <<>>, NoValue)

\* fault: the text that failed to parse is handed back as the result
InvalidJsonResult_Coerced(text) ==
    McpResult("payload", {}, "", "", "", <<>>, Str(text))

\* `except json.JSONDecodeError`: the error result for a text payload that
\* json.loads rejected
InvalidJsonResult(text) ==
    McpResult("dict", {"error", "raw_text", "parse_error"},
              "Invalid JSON response", text, JSONDecodeError.v, <<>>, NoValue)

\* call_tool lines 81-99 on the decoded reply
ClassifyReply(reply) ==
    IF reply.has_error THEN ErrorOnly(reply.error.message)
    ELSE IF reply.content # <<>> /\ reply.content[1].type = "text"
         THEN IF json_loads(reply.content[1].text) # JSONDecodeError
              THEN McpResult("payload", {}, "", "", "", <<>>, json_loads(reply.content[1].text))
              ELSE InvalidJsonResult(reply.content[1].text)
         ELSE McpResult("dict", {"content"}, "", "", "", reply.content, NoValue)

ServerTools(srv) == IF srv = "weather" THEN weather_tools ELSE ha_tools

NoReply == HttpReply(0, FALSE, FALSE, NoRpcError, <<>>)

\* fault: every exception is retried
ShouldRetry_Any(exc) == TRUE

\* retry=retry_if_exception_type(httpx.RequestError): the exceptions of
\* _make_request that tenacity retries
ShouldRetry(exc) == exc = "RequestError"

\* fault: one attempt too many
ShouldStop_Late(n) == n > StopAfterAttempt

\* stop=stop_after_attempt(3)
ShouldStop(n) == n >= StopAfterAttempt

\* call_tool's handlers: `except httpx.RequestError` and `except Exception`
CallToolCatches(exc) == exc \in {"RequestError", "HTTPStatusError", "JSONDecodeError"}

\* the error result call_tool returns for a caught exception
ExceptionResult(exc) ==
    CASE exc = "RequestError" -> ErrorOnly("Connection error: All connection attempts failed")
      [] exc = "HTTPStatusError" -> ErrorOnly("Server error '500 Internal Server Error'")
      [] OTHER -> ErrorOnly("Expecting value: line 1 column 1 (char 0)")

InitMCP ==
    /\ server_name \in {"weather", "ha"}
    /\ mcp_pc = "idle"
    /\ mcp_name = Absent
    /\ attempt_number = 0
    /\ mcp_result = NoMcpResult
    /\ mcp_method = Absent
    /\ self_tools = {}
    /\ init_returns = "nothing"
    /\ mcp_reply = NoReply
    /\ posts = <<>>
    /\ waits = <<>>
    /\ sent = <<>>

\* call_tool is entered: the first attempt of _make_request is about to POST
CallTool ==
    /\ mcp_pc \in {"idle", "returned"}
    /\ \E name \in ServerTools(server_name) : mcp_name' = name
    /\ mcp_pc' = "post"
    /\ mcp_method' = "tools/call"
    /\ attempt_number' = 1
    /\ mcp_result' = NoMcpResult
    /\ mcp_reply' = NoReply
    /\ posts' = <<>>
    /\ waits' = <<>>
    /\ UNCHANGED <<server_name, self_tools, init_returns, sent>>
    /\ UNCHANGED runVars
    /\ UNCHANGED factoryVars
    /\ UNCHANGED pairVars
    /\ UNCHANGED sideVars

\* _make_request raised exc in attempt attempt_number: tenacity sleeps and
\* retries, or the exception reaches call_tool's handlers
AfterException(exc) ==
    IF ShouldRetry(exc) /\ ~ShouldStop(attempt_number)
    THEN /\ mcp_pc' = "sleep"
         /\ waits' = Append(waits, wait_exponential(attempt_number))
         /\ mcp_result' = mcp_result
    ELSE /\ waits' = waits
         /\ IF CallToolCatches(exc)
            THEN /\ mcp_pc' = "returned"
                 /\ mcp_result' = ExceptionResult(exc)
            ELSE /\ mcp_pc' = "raised"
                 /\ mcp_result' = mcp_result

\* the POST fails at connection level: httpx.RequestError
PostConnectionError ==
    /\ mcp_pc = "post"
    /\ posts' = Append(posts, "RequestError")
    /\ AfterException("RequestError")
    /\ UNCHANGED <<server_name, mcp_name, attempt_number, mcp_reply>>
    /\ UNCHANGED <<mcp_method, self_tools, init_returns, sent>>
    /\ UNCHANGED runVars
    /\ UNCHANGED factoryVars
    /\ UNCHANGED pairVars
    /\ UNCHANGED sideVars

\* the sleep between two attempts is over
Retry ==
    /\ mcp_pc = "sleep"
    /\ mcp_pc' = "post"
    /\ attempt_number' = attempt_number + 1
    /\ UNCHANGED <<server_name, mcp_name, mcp_result, mcp_reply, posts, waits>>
    /\ UNCHANGED <<mcp_method, self_tools, init_returns, sent>>
    /\ UNCHANGED runVars
    /\ UNCHANGED factoryVars
    /\ UNCHANGED pairVars
    /\ UNCHANGED sideVars

\* the POST is answered: raise_for_status or response.json() raises, or
\* call_tool classifies the decoded reply and returns
PostAnswered ==
    /\ mcp_pc = "post"
    /\ \E reply \in HttpReplies :
        /\ posts' = Append(posts, ReplyKind(reply))
        /\ mcp_reply' = reply
        /\ IF ReplyKind(reply) \in {"HTTPStatusError", "JSONDecodeError"}
           THEN AfterException(ReplyKind(reply))
           ELSE /\ mcp_pc' = "returned"
                /\ mcp_result' = ClassifyReply(reply)
                /\ waits' = waits
    /\ UNCHANGED <<server_name, mcp_name, attempt_number>>
    /\ UNCHANGED <<mcp_method, self_tools, init_returns, sent>>
    /\ UNCHANGED runVars
    /\ UNCHANGED factoryVars
    /\ UNCHANGED pairVars
    /\ UNCHANGED sideVars

(***************************************************************************)
(* MCPClient.initialize                                                    *)
(***************************************************************************)
\* what the tool server can answer to the POST of initialize or tools/list
HandshakeReply(status, json, is_dict, has_error, has_tools, tool_names) ==
    [status |-> status, json |-> json, is_dict |-> is_dict, has_error |-> has_error,
     has_tools |-> has_tools, tools |-> tool_names]
HandshakeReplies(method, srv) ==
    {HandshakeReply(500, FALSE, FALSE, FALSE, FALSE, {}),
     HandshakeReply(200, FALSE, FALSE, FALSE, FALSE, {}),
     HandshakeReply(200, TRUE, FALSE, FALSE, FALSE, {}),
     HandshakeReply(200, TRUE, TRUE, TRUE, FALSE, {}),
     HandshakeReply(200, TRUE, TRUE, FALSE, FALSE, {})}
    \cup (IF method = "tools/list"
          THEN {HandshakeReply(200, TRUE, TRUE, FALSE, TRUE, ServerTools(srv))}
          ELSE {})

\* what an answered POST of the handshake ended in
HandshakeKind(reply) ==
    IF reply.status # 200 THEN "HTTPStatusError"
    ELSE IF ~reply.json THEN "JSONDecodeError"
    ELSE IF ~reply.is_dict THEN "not_a_dict"
    ELSE IF reply.has_error THEN "rpc_error"
    ELSE "rpc_result"

\* tools_result.get("result", {}).get("tools", [])
ToolsOf(reply) == IF reply.has_tools THEN reply.tools ELSE {}

\* the first request of initialize
FirstMethod == "initialize"

\* the request that follows the one of method m, if any
NextMethod(m) == IF m = FirstMethod THEN "tools/list" ELSE Absent

\* initialize is entered: the first attempt of the first request
Initialize ==
    /\ mcp_pc = "idle"
    /\ init_returns = "nothing"
    /\ mcp_pc' = "init_post"
    /\ mcp_method' = FirstMethod
    /\ attempt_number' = 1
    /\ sent' = <<>>
    /\ UNCHANGED <<server_name, mcp_name, mcp_result, self_tools, init_returns,
                   mcp_reply, posts, waits>>
    /\ UNCHANGED runVars
    /\ UNCHANGED factoryVars
    /\ UNCHANGED pairVars
    /\ UNCHANGED sideVars

\* a request of initialize raised exc in attempt attempt_number: tenacity
\* sleeps and retries, or initialize's handlers return False
InitAfterException(exc) ==
    IF ShouldRetry(exc) /\ ~ShouldStop(attempt_number)
    THEN /\ mcp_pc' = "init_sleep"
         /\ init_returns' = init_returns
    ELSE /\ mcp_pc' = "idle"
         /\ init_returns' = "False"

InitPostConnectionError ==
    /\ mcp_pc = "init_post"
    /\ sent' = Append(sent, [method |-> mcp_method, outcome |-> "RequestError"])
    /\ InitAfterException("RequestError")
    /\ UNCHANGED <<server_name, mcp_name, attempt_number, mcp_result, mcp_method,
                   self_tools, mcp_reply, posts, waits>>
    /\ UNCHANGED runVars
    /\ UNCHANGED factoryVars
    /\ UNCHANGED pairVars
    /\ UNCHANGED sideVars

InitRetry ==
    /\ mcp_pc = "init_sleep"
    /\ mcp_pc' = "init_post"
    /\ attempt_number' = attempt_number + 1
    /\ UNCHANGED <<server_name, mcp_name, mcp_result, mcp_method, self_tools,
                   init_returns, mcp_reply, posts, waits, sent>>
    /\ UNCHANGED runVars
    /\ UNCHANGED factoryVars
    /\ UNCHANGED pairVars
    /\ UNCHANGED sideVars

\* a POST of initialize is answered: the request raises, or its decoded
\* reply is logged and the next request made, or the tool list is cached
InitPostAnswered ==
    /\ mcp_pc = "init_post"
    /\ \E reply \in HandshakeReplies(mcp_method, server_name) :
        LET kind == HandshakeKind(reply)
        IN  /\ sent' = Append(sent, [method |-> mcp_method, outcome |-> kind])
            /\ IF kind \in {"HTTPStatusError", "JSONDecodeError"}
               THEN /\ InitAfterException(kind)
                    /\ UNCHANGED <<mcp_method, attempt_number, self_tools>>
               ELSE IF NextMethod(mcp_method) # Absent
               THEN /\ mcp_method' = NextMethod(mcp_method)
                    /\ attempt_number' = 1
                    /\ mcp_pc' = "init_post"
                    /\ UNCHANGED <<self_tools, init_returns>>
               ELSE IF kind = "not_a_dict"
               THEN \* list.get: AttributeError, caught by `except Exception`
                    /\ mcp_pc' = "idle"
                    /\ init_returns' = "False"
                    /\ UNCHANGED <<mcp_method, attempt_number, self_tools>>
               ELSE /\ self_tools' = (IF kind = "rpc_result" THEN ToolsOf(reply) ELSE {})
                    /\ mcp_pc' = "idle"
                    /\ init_returns' = "True"
                    /\ UNCHANGED <<mcp_method, attempt_number>>
    /\ UNCHANGED <<server_name, mcp_name, mcp_result, mcp_reply, posts, waits>>
    /\ UNCHANGED runVars
    /\ UNCHANGED factoryVars
    /\ UNCHANGED pairVars
    /\ UNCHANGED sideVars

(***************************************************************************)
(* llm_factory: create_llm_provider and _ensure_providers_registered       *)
(***************************************************************************)
DEFAULT_MODELS(p) ==
    CASE p = "ollama" -> "llama3.1:8b"
      [] p = "openai" -> "gpt-4o"
      [] p = "anthropic" -> "claude-3-5-sonnet-20241022"
      [] p = "google" -> "gemini-2.0-flash"
      [] OTHER -> Absent

\* str.lower()
Lower(name) ==
    CASE name = "GPT" -> "gpt"
      [] name = "OpenAI" -> "openai"
      [] name = "Custom" -> "custom"
      [] name = "Claude" -> "claude"
      [] OTHER -> name

\* provider_aliases.get(provider, provider)
provider_aliases(name) ==
    CASE name = "chatgpt" -> "openai"
      [] name = "gpt" -> "openai"
      [] name = "claude" -> "anthropic"
      [] name = "gemini" -> "google"
      [] OTHER -> name

\* `a or b` on an optional string: None and "" are falsy
Or(a, b) == IF a \in {Absent, ""} THEN b ELSE a

\* os.getenv(key, default): the default only when the variable is not set
Getenv(value, default) == IF value = Absent THEN default ELSE value

\* float(text) of the timeout texts; 0 stands for the ValueError of float("")
Float(text) ==
    CASE text = "120" -> 120
      [] text = "60" -> 60
      [] text = "30" -> 30
      [] OTHER -> 0

\* the order in which _ensure_providers_registered imports and registers
RegistrationOrder == <<"ollama", "openai", "anthropic", "google">>

\* the arguments of a call: provider_type, model, settings and **kwargs
Args(provider_type, model, s_provider, s_model, s_key, s_timeout, kw_keys) ==
    [provider_type |-> provider_type, model |-> model,
     settings |-> [llm_provider |-> s_provider, llm_model |-> s_model,
                   api_key |-> s_key, llm_timeout |-> s_timeout],
     kwargs |-> [keys |-> kw_keys, api_key |-> "key-from-argument", timeout |-> 5]]
NoArgs == Args(Absent, Absent, Absent, Absent, Absent, Absent, {})

\* a caller alone is studied with every layer of the configuration, callers
\* in parallel with a provider name only
CallArgs ==
    IF Cardinality(threads) = 1
    THEN {Args(pt, m, sp, rest[1], rest[2], rest[3], kw) :
            pt \in {Absent, "GPT", "foo"}, m \in {Absent, "model-from-argument"},
            sp \in {Absent, "Claude"},
            rest \in {<<Absent, Absent, Absent>>,
                      <<"model-from-settings", "key-from-settings", "60">>},
            kw \in SUBSET {"api_key", "timeout"}}
    ELSE {Args(pt, Absent, Absent, Absent, Absent, Absent, {}) :
            pt \in {"ollama", "openai", "google"}}

\* os.environ: LLM_PROVIDER, <PROVIDER>_MODEL, <PROVIDER>_API_KEY, LLM_TIMEOUT
Environment(p, m, k, t) == [LLM_PROVIDER |-> p, MODEL |-> m, API_KEY |-> k, LLM_TIMEOUT |-> t]
Environments ==
    {Environment(p, rest[1], rest[2], rest[3]) :
        p \in {Absent, "", "gemini"},
        rest \in {<<Absent, Absent, Absent>>,
                  <<"model-from-env", "key-from-env", "30">>,
                  <<"model-from-env", "key-from-env", "">>}}
EmptyEnvironment == Environment(Absent, Absent, Absent, Absent)

\* what a call ended in: the provider built from provider_kwargs, or a
\* ValueError
NoOutcome ==
    [kind |-> "nothing", provider |-> Absent, model |-> Absent, timeout |-> 0,
     api_key |-> Absent, base_kwargs |-> {}, available |-> {}]
Constructed(p, model, timeout, api_key, keys) ==
    [kind |-> "provider", provider |-> p, model |-> model, timeout |-> timeout,
     api_key |-> api_key, base_kwargs |-> keys, available |-> {}]
\* fault: the message lists every provider the factory knows of
UnknownProvider_AllNames(p, available) ==
    [kind |-> "Unknown LLM provider", provider |-> p, model |-> Absent, timeout |-> 0,
     api_key |-> Absent, base_kwargs |-> {}, available |-> {"ollama", "openai", "anthropic", "google"}]

\* raise ValueError(f"Unknown LLM provider: '{provider}'. Available providers: {available}")
UnknownProvider(p, available) ==
    [kind |-> "Unknown LLM provider", provider |-> p, model |-> Absent, timeout |-> 0,
     api_key |-> Absent, base_kwargs |-> {}, available |-> available]
FloatValueError(p) ==
    [kind |-> "could not convert string to float", provider |-> p, model |-> Absent,
     timeout |-> 0, api_key |-> Absent, base_kwargs |-> {}, available |-> {}]

\* "Resolve provider type" and "Handle aliases"
ResolveProvider(a, env) ==
    provider_aliases(Lower(Or(a.provider_type,
                              Or(a.settings.llm_provider, Getenv(env.LLM_PROVIDER, "ollama")))))

\* "Resolve model"
ResolveModel(a, env, p) ==
    Or(a.model, Or(a.settings.llm_model, Or(env.MODEL, DEFAULT_MODELS(p))))

\* "Resolve API key for cloud providers", then `if api_key:` over **kwargs
ResolveApiKey(a, env, p) ==
    LET api_key == IF p \in {"openai", "anthropic", "google"}
                   THEN Or(a.settings.api_key, env.API_KEY) ELSE Absent
    IN  IF api_key \notin {Absent, ""} THEN api_key
        ELSE IF "api_key" \in a.kwargs.keys THEN a.kwargs.api_key
        ELSE Absent

\* the text handed to float() in "Resolve timeout"
TimeoutText(a, env) == Or(a.settings.llm_timeout, Getenv(env.LLM_TIMEOUT, "120"))

\* "timeout": timeout, **kwargs
ResolveTimeout(a, env) ==
    IF "timeout" \in a.kwargs.keys THEN a.kwargs.timeout ELSE Float(TimeoutText(a, env))

\* the empty dict
EmptyRegistry == [n \in {} |-> Absent]

\* the class each `from .providers.x import X` block registers
ProviderClass(name) ==
    CASE name = "ollama" -> "OllamaProvider"
      [] name = "openai" -> "OpenAIProvider"
      [] name = "anthropic" -> "AnthropicProvider"
      [] OTHER -> "GoogleProvider"

\* fault: a name that is taken keeps its class
register_provider_FirstWins(registry, name, provider_class) ==
    [n \in DOMAIN registry \cup {Lower(name)} |->
        IF n \in DOMAIN registry THEN registry[n] ELSE provider_class]

\* register_provider: _PROVIDER_REGISTRY[name.lower()] = provider_class
register_provider(registry, name, provider_class) ==
    [n \in DOMAIN registry \cup {Lower(name)} |->
        IF n = Lower(name) THEN provider_class ELSE registry[n]]

\* get_provider_class: _PROVIDER_REGISTRY.get(name.lower()), None as Absent
get_provider_class(registry, name) ==
    IF Lower(name) \in DOMAIN registry THEN registry[Lower(name)] ELSE Absent

InitFactory ==
    /\ PROVIDER_REGISTRY = EmptyRegistry
    /\ installed \in {{"ollama", "openai", "anthropic", "google"}, {"ollama", "openai"}}
    /\ environ \in Environments
    /\ threads = {1}
    /\ f_pc = [t \in threads |-> "idle"]
    /\ f_args = [t \in threads |-> NoArgs]
    /\ f_provider = [t \in threads |-> Absent]
    /\ f_next = [t \in threads |-> 1]
    /\ f_out = [t \in threads |-> NoOutcome]
    /\ f_unknown = {}

\* two callers on an empty registry, every client library installed
InitConcurrent ==
    /\ PROVIDER_REGISTRY = EmptyRegistry
    /\ installed = {"ollama", "openai", "anthropic", "google"}
    /\ environ = EmptyEnvironment
    /\ threads = {1, 2}
    /\ f_pc = [t \in threads |-> "idle"]
    /\ f_args = [t \in threads |-> NoArgs]
    /\ f_provider = [t \in threads |-> Absent]
    /\ f_next = [t \in threads |-> 1]
    /\ f_out = [t \in threads |-> NoOutcome]
    /\ f_unknown = {}

\* create_llm_provider lines 102-118: the name is resolved
CreateLlmProvider ==
    \E t \in threads :
        /\ f_pc[t] \in {"idle", "returned", "raised"}
        /\ \E a \in CallArgs :
            /\ f_args' = [f_args EXCEPT ![t] = a]
            /\ f_provider' = [f_provider EXCEPT ![t] = ResolveProvider(a, environ)]
        /\ f_pc' = [f_pc EXCEPT ![t] = "ensure"]
        /\ f_out' = [f_out EXCEPT ![t] = NoOutcome]
        /\ UNCHANGED <<PROVIDER_REGISTRY, installed, environ, threads, f_next, f_unknown>>
        /\ UNCHANGED <<runVars, mcpVars, pairVars, sideVars>>

\* _ensure_providers_registered: `if _PROVIDER_REGISTRY: return`
EnsureProvidersRegistered ==
    \E t \in threads :
        /\ f_pc[t] = "ensure"
        /\ IF DOMAIN PROVIDER_REGISTRY # {}
           THEN /\ f_pc' = [f_pc EXCEPT ![t] = "lookup"]
                /\ f_next' = f_next
           ELSE /\ f_pc' = [f_pc EXCEPT ![t] = "register"]
                /\ f_next' = [f_next EXCEPT ![t] = 1]
        /\ UNCHANGED <<PROVIDER_REGISTRY, installed, environ, threads, f_args,
                       f_provider, f_out, f_unknown>>
        /\ UNCHANGED <<runVars, mcpVars, pairVars, sideVars>>

\* one `try: from .providers.x import X; register_provider(...)` block
RegisterNext ==
    \E t \in threads :
        /\ f_pc[t] = "register"
        /\ PROVIDER_REGISTRY' =
              IF RegistrationOrder[f_next[t]] \in installed
              THEN register_provider(PROVIDER_REGISTRY, RegistrationOrder[f_next[t]],
                                     ProviderClass(RegistrationOrder[f_next[t]]))
              ELSE PROVIDER_REGISTRY
        /\ IF f_next[t] = Len(RegistrationOrder)
           THEN /\ f_pc' = [f_pc EXCEPT ![t] = "lookup"]
                /\ f_next' = f_next
           ELSE /\ f_pc' = f_pc
                /\ f_next' = [f_next EXCEPT ![t] = f_next[t] + 1]
        /\ UNCHANGED <<installed, environ, threads, f_args, f_provider, f_out,
                       f_unknown>>
        /\ UNCHANGED <<runVars, mcpVars, pairVars, sideVars>>

\* create_llm_provider lines 123-168: the lookup, then the ValueError or
\* the construction of the provider
LookupAndConstruct ==
    \E t \in threads :
        LET a == f_args[t]
            p == f_provider[t]
        IN  /\ f_pc[t] = "lookup"
            /\ IF get_provider_class(PROVIDER_REGISTRY, p) = Absent
               THEN /\ f_pc' = [f_pc EXCEPT ![t] = "raised"]
                    /\ f_out' = [f_out EXCEPT ![t] = UnknownProvider(p, DOMAIN PROVIDER_REGISTRY)]
                    /\ f_unknown' = f_unknown \cup {t}
               ELSE IF Float(TimeoutText(a, environ)) = 0
               THEN /\ f_pc' = [f_pc EXCEPT ![t] = "raised"]
                    /\ f_out' = [f_out EXCEPT ![t] = FloatValueError(p)]
                    /\ f_unknown' = f_unknown
               ELSE /\ f_unknown' = f_unknown
                    /\ f_pc' = [f_pc EXCEPT ![t] = "returned"]
                    /\ f_out' = [f_out EXCEPT ![t] =
                          Constructed(p, ResolveModel(a, environ, p),
                                      ResolveTimeout(a, environ),
                                      ResolveApiKey(a, environ, p), a.kwargs.keys)]
            /\ UNCHANGED <<PROVIDER_REGISTRY, installed, environ, threads, f_args,
                           f_provider, f_next>>
            /\ UNCHANGED <<runVars, mcpVars, pairVars, sideVars>>

(***************************************************************************)
(* Two runs on one provider instance, interleaved at their awaits          *)
(***************************************************************************)
\* the locals of the running chat_with_tools coroutine
Frame ==
    [tools |-> tools, max_iterations |-> max_iterations, pc |-> pc,
     iteration |-> iteration, messages |-> messages,
     tool_calls_made |-> tool_calls_made, response |-> response,
     tool_calls |-> tool_calls, next_call |-> next_call,
     turn_results |-> turn_results, result |-> result, chat_calls |-> chat_calls,
     requested |-> requested, invoked |-> invoked, dispatched |-> dispatched,
     heard |-> heard]

\* the locals of a run that was called with n passes and has not started
NewFrame(n) ==
    [tools |-> weather_tools \cup ha_tools, max_iterations |-> n, pc |-> "start",
     iteration |-> 0, messages |-> <<>>, tool_calls_made |-> <<>>,
     response |-> NoResponse, tool_calls |-> <<>>, next_call |-> 1,
     turn_results |-> <<>>, result |-> NoResult, chat_calls |-> 0,
     requested |-> <<>>, invoked |-> <<>>, dispatched |-> <<>>, heard |-> <<>>]

\* max_iterations of the two runs
PairIterations == {1}

\* fault: the history is kept on the provider instance
FrameMessages_OnInstance(own, other) == other

\* `messages = [...]` is a local of the coroutine: the history the resumed
\* run goes on with is its own, not the one of the run that was executing
FrameMessages(own, other) == own

InitPair ==
    /\ InitRun
    /\ provider \in {"ollama", "google"}
    /\ system_prompt = Absent
    /\ tools = weather_tools \cup ha_tools
    /\ max_iterations \in PairIterations
    /\ current = 1
    /\ parked \in {NewFrame(n) : n \in PairIterations}

\* the running coroutine is suspended at its await (or is over, or has not
\* started) and the event loop resumes the other one
Switch ==
    /\ parked' = Frame
    /\ current' = 3 - current
    /\ tools' = parked.tools
    /\ max_iterations' = parked.max_iterations
    /\ pc' = parked.pc
    /\ iteration' = parked.iteration
    /\ messages' = FrameMessages(parked.messages, messages)
    /\ tool_calls_made' = parked.tool_calls_made
    /\ response' = parked.response
    /\ tool_calls' = parked.tool_calls
    /\ next_call' = parked.next_call
    /\ turn_results' = parked.turn_results
    /\ result' = parked.result
    /\ chat_calls' = parked.chat_calls
    /\ requested' = parked.requested
    /\ invoked' = parked.invoked
    /\ dispatched' = parked.dispatched
    /\ heard' = parked.heard
    /\ UNCHANGED <<provider, system_prompt, payload>>
    /\ UNCHANGED <<mcpVars, factoryVars>>
    /\ UNCHANGED sideVars

(***************************************************************************)
(* convert_tools_to_provider_format and the Gemini tool objects            *)
(***************************************************************************)
\* a JSON schema dict: its keys, its properties in order, its required list
Schema(keys, properties, required) ==
    [keys |-> keys, properties |-> properties, required |-> required]

\* the placeholder of a "parameters" key that is not there
NoSchema == Schema({}, <<>>, <<>>)

\* {"type": "object", "properties": {}}
DefaultSchema == Schema({"type", "properties"}, <<>>, <<>>)

Property(name, type) == [name |-> name, type |-> type]

\* the inputSchemas of the tool servers, a schema without properties, and
\* one that only lists its required names
InputSchemas ==
    { Schema({"type", "properties", "required"}, <<>>, <<>>),
      Schema({"type", "properties", "required"}, <<Property("hours", "integer")>>, <<>>),
      Schema({"type", "properties", "required"},
             <<Property("temperature", "number")>>, <<"temperature">>),
      Schema({"type"}, <<>>, <<>>),
      Schema({"type", "required"}, <<>>, <<"temperature">>) }

\* a tool definition in the function shape (MCPClient.get_tools_for_llm)
FunctionTool(name, keys, parameters) ==
    [format |-> "function",
     function |-> [keys |-> keys, name |-> name, description |-> "", schema |-> parameters]]

ToolDefinitions ==
    { FunctionTool(n, {"name", "description", "parameters"}, sch) :
          n \in {"get_forecast", "set_thermostat_temperature"}, sch \in InputSchemas }
    \cup { FunctionTool("get_current_weather", {"name", "description"}, NoSchema) }

\* the lists of at most n tool definitions
RECURSIVE ToolLists(_)
ToolLists(n) ==
    IF n = 0 THEN {<<>>}
    ELSE ToolLists(n - 1)
         \cup {Append(l, t) : l \in {x \in ToolLists(n - 1) : Len(x) = n - 1},
                              t \in ToolDefinitions}

\* func.get("parameters", {"type": "object", "properties": {}})
GetParameters(func) ==
    IF "parameters" \in func.keys THEN func.schema ELSE DefaultSchema

\* a provider-native tool
NativeTool(format, name, schema) ==
    [format |-> format,
     function |-> [keys |-> {"name", "description", "parameters"}, name |-> name,
                   description |-> "", schema |-> schema]]

\* AnthropicProvider.convert_tools_to_provider_format
AnthropicTools(tls) ==
    [i \in 1..Len(tls) |->
        NativeTool("anthropic", tls[i].function.name, GetParameters(tls[i].function))]

\* GoogleProvider.convert_tools_to_provider_format
FunctionDeclarations(tls) ==
    [i \in 1..Len(tls) |->
        NativeTool("declaration", tls[i].function.name, GetParameters(tls[i].function))]

\* the Gemini type of a property
GeminiType(t) ==
    CASE t = "integer" -> "INTEGER"
      [] t = "number" -> "NUMBER"
      [] t = "boolean" -> "BOOLEAN"
      [] OTHER -> "STRING"

\* GoogleProvider._convert_parameters: the genai Schema, or None
convert_parameters(params) ==
    IF params.keys = {} \/ "properties" \notin params.keys THEN NoSchema
    ELSE Schema({"type", "properties", "required"},
                [i \in 1..Len(params.properties) |->
                    Property(params.properties[i].name, GeminiType(params.properties[i].type))],
                params.required)

\* GoogleProvider._build_gemini_tools: the FunctionDeclarations of the Tool
GeminiTools(tls) ==
    LET fds == FunctionDeclarations(tls)
    IN  [i \in 1..Len(fds) |->
            NativeTool("gemini", fds[i].function.name,
                       convert_parameters(fds[i].function.schema))]

\* the tools as the adapter hands them to its API (Ollama and OpenAI use
\* LLMProvider.convert_tools_to_provider_format, which returns its argument)
ProviderTools(p, tls) ==
    CASE p = "anthropic" -> AnthropicTools(tls)
      [] p = "google" -> GeminiTools(tls)
      [] OTHER -> tls

InitConvert ==
    /\ conv_provider \in Providers
    /\ conv_tools \in ToolLists(MaxTools)
    /\ conv_pc = "start"
    /\ converted = <<>>

\* the adapter converts the tools for a request
ConvertTools ==
    /\ conv_pc = "start"
    /\ conv_pc' = "converted"
    /\ converted' = ProviderTools(conv_provider, conv_tools)
    /\ UNCHANGED <<conv_provider, conv_tools>>
    /\ UNCHANGED <<runVars, mcpVars, factoryVars, pairVars>>
    /\ UNCHANGED <<callVars, regVars, agentVars, serverVars, appVars, storeVars>>

\* no conversion
IdleConvert ==
    /\ conv_provider = "ollama"
    /\ conv_tools = <<>>
    /\ conv_pc = "start"
    /\ converted = <<>>

(***************************************************************************)
(* Two call_tool coroutines on one MCPClient, and health_check             *)
(***************************************************************************)
\* the locals of the call_tool that is executing
CallFrame ==
    [mcp_pc |-> mcp_pc, mcp_name |-> mcp_name, attempt_number |-> attempt_number,
     mcp_result |-> mcp_result, mcp_method |-> mcp_method, mcp_reply |-> mcp_reply,
     posts |-> posts, waits |-> waits]

\* the locals of a call_tool that has not been entered
NewCallFrame ==
    [mcp_pc |-> "idle", mcp_name |-> Absent, attempt_number |-> 0,
     mcp_result |-> NoMcpResult, mcp_method |-> Absent, mcp_reply |-> NoReply,
     posts |-> <<>>, waits |-> <<>>]

\* fault: the result of the request is kept on the client
CallFrameResult_OnInstance(own, other) == other

\* `result = await self._make_request(...)` is a local of the coroutine
CallFrameResult(own, other) == own

\* a client whose initialize has returned True, and two callers of call_tool
InitCalls ==
    /\ server_name \in {"weather", "ha"}
    /\ self_tools = ServerTools(server_name)
    /\ init_returns = "True"
    /\ sent = <<[method |-> "initialize", outcome |-> "rpc_result"],
                [method |-> "tools/list", outcome |-> "rpc_result"]>>
    /\ mcp_pc = "idle"
    /\ mcp_name = Absent
    /\ attempt_number = 1
    /\ mcp_result = NoMcpResult
    /\ mcp_method = "tools/list"
    /\ mcp_reply = NoReply
    /\ posts = <<>>
    /\ waits = <<>>
    /\ call_parked = NewCallFrame
    /\ health_returns = "nothing"

\* the running call_tool is suspended at its await (or is over, or has not
\* been entered) and the event loop resumes the other one
SwitchCall ==
    /\ call_parked' = CallFrame
    /\ mcp_pc' = call_parked.mcp_pc
    /\ mcp_name' = call_parked.mcp_name
    /\ attempt_number' = call_parked.attempt_number
    /\ mcp_result' = CallFrameResult(call_parked.mcp_result, mcp_result)
    /\ mcp_method' = call_parked.mcp_method
    /\ mcp_reply' = call_parked.mcp_reply
    /\ posts' = call_parked.posts
    /\ waits' = call_parked.waits
    /\ UNCHANGED <<server_name, self_tools, init_returns, sent, health_returns>>
    /\ UNCHANGED <<runVars, factoryVars, pairVars>>
    /\ UNCHANGED <<convVars, regVars, agentVars, serverVars, appVars, storeVars>>

\* MCPClient.health_check: GET /health answers 200, answers another status,
\* or raises
HealthCheck ==
    /\ \E outcome \in {"200", "503", "raises"} :
          health_returns' = IF outcome = "200" THEN "True" ELSE "False"
    /\ UNCHANGED call_parked
    /\ UNCHANGED <<runVars, mcpVars, factoryVars, pairVars>>
    /\ UNCHANGED <<convVars, regVars, agentVars, serverVars, appVars, storeVars>>

\* no second call_tool
IdleCalls ==
    /\ call_parked = NewCallFrame
    /\ health_returns = "nothing"

IdleRegistrations == registrations = <<>>

\* the names and the classes register_provider is called with
RegisteredNames == {"custom", "Custom", "openai", "OpenAI"}
RegisteredClasses == {"CustomProvider", "OtherProvider"}

\* a caller registers a provider class
RegisterProvider ==
    /\ Len(registrations) < MaxRegistrations
    /\ \E name \in RegisteredNames, provider_class \in RegisteredClasses :
          /\ PROVIDER_REGISTRY' = register_provider(PROVIDER_REGISTRY, name, provider_class)
          /\ registrations' = Append(registrations,
                                    [name |-> name, provider_class |-> provider_class])
    /\ UNCHANGED <<installed, environ, threads, f_pc, f_args, f_provider, f_next,
                   f_out, f_unknown>>
    /\ UNCHANGED <<runVars, mcpVars, pairVars>>
    /\ UNCHANGED <<convVars, callVars, agentVars, serverVars, appVars, storeVars>>

(***************************************************************************)
(* ClimateAgent.initialize                                                 *)
(***************************************************************************)
\* the llm_provider setting in the decision store: none, or a provider
StoredSettings == {Absent, "openai"}

\* an awaited call of initialize: what was called, on what, and its result
Step(step, on, ok) == [step |-> step, on |-> on, ok |-> ok]

\* ClimateAgent.__init__
InitAgent ==
    /\ agent_pc = "created"
    /\ agent_settings \in StoredSettings
    /\ agent_steps = <<>>
    /\ initialized = FALSE
    /\ agent_returns = "nothing"

\* "Initialize database": await self.logger.initialize()
AgentLoggerInitialize ==
    /\ agent_pc = "created"
    /\ agent_pc' = "health_check"
    /\ agent_steps' = Append(agent_steps, Step("logger.initialize", "self.logger", "None"))
    /\ UNCHANGED <<agent_settings, initialized, agent_returns>>
    /\ UNCHANGED <<runVars, mcpVars, factoryVars, pairVars>>
    /\ UNCHANGED <<convVars, callVars, regVars, serverVars, appVars, storeVars>>

\* "Initialize database" when the database cannot be opened: the exception
\* leaves initialize
AgentLoggerInitializeRaises ==
    /\ agent_pc = "created"
    /\ agent_pc' = "raised"
    /\ agent_steps' = Append(agent_steps, Step("logger.initialize", "self.logger", "raised"))
    /\ agent_returns' = "raised"
    /\ UNCHANGED <<agent_settings, initialized>>
    /\ UNCHANGED <<runVars, mcpVars, factoryVars, pairVars>>
    /\ UNCHANGED <<convVars, callVars, regVars, serverVars, appVars, storeVars>>

\* "Check Ollama": self.ollama is the OllamaClient made in __init__
AgentHealthCheck ==
    /\ agent_pc = "health_check"
    /\ \E ok \in {IF services_up THEN "True" ELSE "False"} :
          /\ agent_steps' = Append(agent_steps, Step("health_check", "self.ollama", ok))
          /\ IF ok = "False"
             THEN /\ agent_pc' = "returned"
                  /\ agent_returns' = "False"
             ELSE /\ agent_pc' = "weather_init"
                  /\ agent_returns' = agent_returns
    /\ UNCHANGED <<agent_settings, initialized>>
    /\ UNCHANGED <<runVars, mcpVars, factoryVars, pairVars>>
    /\ UNCHANGED <<convVars, callVars, regVars, serverVars, appVars, storeVars>>

\* the steps of the MCPClient.initialize that the agent awaits
AgentClientInitialize ==
    /\ agent_pc \in {"weather_init", "ha_init"}
    /\ \/ Initialize
       \/ InitPostConnectionError
       \/ InitRetry
       \/ InitPostAnswered

\* self.weather_client.initialize() returned; if True, the agent goes on to
\* self.ha_client, an MCPClient on which nothing was called yet
AgentWeatherInitialized ==
    /\ agent_pc = "weather_init"
    /\ mcp_pc = "idle"
    /\ init_returns # "nothing"
    /\ agent_steps' = Append(agent_steps,
                             Step("initialize", "self.weather_client", init_returns))
    /\ IF init_returns = "False"
       THEN /\ agent_pc' = "returned"
            /\ agent_returns' = "False"
            /\ UNCHANGED mcpVars
       ELSE /\ agent_pc' = "ha_init"
            /\ agent_returns' = agent_returns
            /\ server_name' = "ha"
            /\ mcp_pc' = "idle"
            /\ mcp_name' = Absent
            /\ attempt_number' = 0
            /\ mcp_result' = NoMcpResult
            /\ mcp_method' = Absent
            /\ self_tools' = {}
            /\ init_returns' = "nothing"
            /\ mcp_reply' = NoReply
            /\ posts' = <<>>
            /\ waits' = <<>>
            /\ sent' = <<>>
    /\ UNCHANGED <<agent_settings, initialized>>
    /\ UNCHANGED <<runVars, factoryVars, pairVars>>
    /\ UNCHANGED <<convVars, callVars, regVars, serverVars, appVars, storeVars>>

\* self.ha_client.initialize() returned
AgentHaInitialized ==
    /\ agent_pc = "ha_init"
    /\ mcp_pc = "idle"
    /\ init_returns # "nothing"
    /\ agent_steps' = Append(agent_steps, Step("initialize", "self.ha_client", init_returns))
    /\ agent_pc' = "returned"
    /\ agent_returns' = init_returns
    /\ initialized' = (init_returns = "True")
    /\ UNCHANGED agent_settings
    /\ UNCHANGED <<runVars, mcpVars, factoryVars, pairVars>>
    /\ UNCHANGED <<convVars, callVars, regVars, serverVars, appVars, storeVars>>

\* an agent on which initialize was not called
IdleAgent ==
    /\ InitAgent
    /\ agent_settings = Absent

(***************************************************************************)
(* set_thermostat_temperature in the Home Assistant and Ecobee servers     *)
(***************************************************************************)
\* float(os.getenv("MIN_TEMP", "17")), float(os.getenv("MAX_TEMP", "23"))
MIN_TEMP == 17
MAX_TEMP == 23

\* arguments.get("temperature"): None, a number of degrees Celsius, or a
\* string of digits
NoTemperature == [t |-> "None", v |-> 0]
Number(n) == [t |-> "number", v |-> n]
Text(n) == [t |-> "str", v |-> n]
Temperatures ==
    {NoTemperature, Text(21)}
        \cup {Number(n) : n \in {MIN_TEMP - 1, MIN_TEMP, 20, MAX_TEMP, MAX_TEMP + 1}}

\* thermostat["settings"]["hvacMode"]
HvacModes == {"heat", "cool", "auto"}

\* the texts the handlers return
TemperatureRequired == "Error: temperature is required"
OutOfRange == "Error: Temperature must be between 17 and 23"
TypeErrorText == "Error: '<' not supported between instances of 'str' and 'float'"
UpstreamErrorText == "Connection error"
SuccessText == "success"

\* `temperature < MIN_TEMP or temperature > MAX_TEMP`
OutOfBounds(temperature) == temperature < MIN_TEMP \/ temperature > MAX_TEMP

\* what the handler returns before it reaches the upstream call, Absent when
\* it reaches it
GuardText(temperature) ==
    IF temperature.t = "None" THEN TemperatureRequired
    ELSE IF temperature.t = "str" THEN TypeErrorText
    ELSE IF OutOfBounds(temperature.v) THEN OutOfRange
    ELSE Absent

TextOf(server, temperature, text, wrote) ==
    [server |-> server, temperature |-> temperature, text |-> text, wrote |-> wrote]

\* c_to_ecobee_format: degrees Celsius to tenths of a degree Fahrenheit,
\* int(((c * 9/5) + 32) * 10), for a whole number of degrees
c_to_ecobee_format(c) == c * 18 + 320

\* params of the setHold function: one setpoint, or in auto mode a deadband
\* of one degree on each side
HoldParams(mode, temp_c) ==
    IF mode = "auto"
    THEN [holdType |-> "nextTransition",
          heatHoldTemp |-> c_to_ecobee_format(temp_c - 1),
          coolHoldTemp |-> c_to_ecobee_format(temp_c + 1)]
    ELSE [holdType |-> "nextTransition",
          heatHoldTemp |-> c_to_ecobee_format(temp_c),
          coolHoldTemp |-> c_to_ecobee_format(temp_c)]

InitServers ==
    /\ ha_writes = <<>>
    /\ ecobee_writes = <<>>
    /\ tool_texts = <<>>

\* ha_mcp call_tool("set_thermostat_temperature", arguments): the service call
\* and the verification read either succeed or raise httpx.RequestError
HaSetTemperature ==
    /\ Len(tool_texts) < MaxServerCalls
    /\ \E temperature \in Temperatures, upstream_up \in BOOLEAN :
          IF GuardText(temperature) # Absent
          THEN /\ tool_texts' = Append(tool_texts,
                                       TextOf("ha", temperature, GuardText(temperature), FALSE))
               /\ UNCHANGED ha_writes
          ELSE /\ ha_writes' = Append(ha_writes, [entity_id |-> "climate.my_ecobee",
                                                  temperature |-> temperature.v])
               /\ tool_texts' = Append(tool_texts,
                     TextOf("ha", temperature,
                            IF upstream_up THEN SuccessText ELSE UpstreamErrorText, TRUE))
    /\ UNCHANGED ecobee_writes
    /\ UNCHANGED <<runVars, mcpVars, factoryVars, pairVars>>
    /\ UNCHANGED <<convVars, callVars, regVars, agentVars, appVars, storeVars>>

\* ecobee_mcp call_tool("set_thermostat_temperature", arguments):
\* get_thermostat first, then the guard, then update_thermostat
EcobeeSetTemperature ==
    /\ Len(tool_texts) < MaxServerCalls
    /\ \E temperature \in Temperatures, mode \in HvacModes,
          thermostat_read \in BOOLEAN, upstream_up \in BOOLEAN :
          IF ~thermostat_read
          THEN /\ tool_texts' = Append(tool_texts,
                                       TextOf("ecobee", temperature, UpstreamErrorText, FALSE))
               /\ UNCHANGED ecobee_writes
          ELSE IF GuardText(temperature) # Absent
          THEN /\ tool_texts' = Append(tool_texts,
                                       TextOf("ecobee", temperature, GuardText(temperature), FALSE))
               /\ UNCHANGED ecobee_writes
          ELSE /\ ecobee_writes' = Append(ecobee_writes, HoldParams(mode, temperature.v))
               /\ tool_texts' = Append(tool_texts,
                     TextOf("ecobee", temperature,
                            IF upstream_up THEN SuccessText ELSE UpstreamErrorText, TRUE))
    /\ UNCHANGED ha_writes
    /\ UNCHANGED <<runVars, mcpVars, factoryVars, pairVars>>
    /\ UNCHANGED <<convVars, callVars, regVars, agentVars, appVars, storeVars>>

(***************************************************************************)
(* The application: startup(), scheduled_evaluation_wrapper,               *)
(* ClimateAgent.run_evaluation and the shutdown of main.lifespan           *)
(***************************************************************************)
\* the callers of run_evaluation: the startup task and the scheduler's job
\* (one instance at a time)
Evaluators == {"startup", "scheduler"}

\* what chat_with_tools can give run_evaluation: a result, a result that
\* carries an error, or an exception; set_called tells whether
\* tool_calls_made holds a set_thermostat_temperature record
NoRunResult == [kind |-> "nothing", set_called |-> FALSE]
RunResults ==
    {[kind |-> k, set_called |-> c] : k \in {"DONE", "error"}, c \in BOOLEAN}
        \cup {[kind |-> "raised", set_called |-> FALSE]}

\* the log_decision call of run_evaluation: in the try block with ai_action
\* and success=True, in `except Exception` with action ERROR and
\* success=False
LoggedDecision(by, run_result) ==
    IF run_result.kind = "raised"
    THEN [by |-> by, result |-> run_result.kind, action |-> "ERROR", success |-> FALSE]
    ELSE [by |-> by, result |-> run_result.kind,
          action |-> IF run_result.set_called THEN "SET_TEMPERATURE" ELSE "NO_CHANGE",
          success |-> TRUE]

\* fault: run_evaluation goes on whatever the flag says
ShouldSkip_Never(flag) == FALSE

\* `if not self.initialized:` of run_evaluation
ShouldSkip(flag) == ~flag

\* lifespan before its yield: the scheduler is started and the startup task
\* created; the task has slept and is about to await agent.initialize()
InitApp ==
    /\ services_up \in BOOLEAN
    /\ startup_pc = "initialize"
    /\ eval_pc = [who \in Evaluators |-> "idle"]
    /\ eval_result = [who \in Evaluators |-> NoRunResult]
    /\ last_cycle = [who \in Evaluators |-> "none"]
    /\ active_evaluation = Absent
    /\ shutdown_pc = "serving"
    /\ waited = "nothing"
    /\ abandoned = {}
    /\ decisions = <<>>

\* the LLM service comes up
ServicesRecover ==
    /\ ~services_up
    /\ services_up' = TRUE
    /\ UNCHANGED <<startup_pc, eval_pc, eval_result, last_cycle, active_evaluation,
                   shutdown_pc, waited, abandoned, decisions>>
    /\ UNCHANGED <<runVars, mcpVars, factoryVars, pairVars>>
    /\ UNCHANGED <<convVars, callVars, regVars, agentVars, serverVars, storeVars>>

\* startup() after `success = await agent.initialize()`: the failure is
\* logged, ensure_prompts_and_settings is awaited, run_evaluation is next;
\* an exception of initialize ends the task
StartupAfterInitialize ==
    /\ startup_pc = "initialize"
    /\ shutdown_pc # "complete"
    /\ agent_pc \in {"returned", "raised"}
    /\ startup_pc' = IF agent_pc = "raised" THEN "failed" ELSE "evaluate"
    /\ UNCHANGED <<services_up, eval_pc, eval_result, last_cycle, active_evaluation,
                   shutdown_pc, waited, abandoned, decisions>>
    /\ UNCHANGED <<runVars, mcpVars, factoryVars, pairVars>>
    /\ UNCHANGED <<convVars, callVars, regVars, agentVars, serverVars, storeVars>>

\* run_evaluation is called, by the last line of startup() or by
\* scheduled_evaluation_wrapper (which tracks its task): `if not
\* self.initialized: return`, else the code up to the await of chat_with_tools
EvalBegin(who) ==
    /\ shutdown_pc = "serving"
    /\ eval_pc[who] = "idle"
    /\ IF who = "startup" THEN startup_pc = "evaluate" ELSE TRUE
    /\ startup_pc' = IF who = "startup" THEN "done" ELSE startup_pc
    /\ IF ShouldSkip(initialized)
       THEN /\ last_cycle' = [last_cycle EXCEPT ![who] = "skipped"]
            /\ UNCHANGED <<eval_pc, active_evaluation>>
       ELSE /\ Len(decisions) < MaxDecisions
            /\ eval_pc' = [eval_pc EXCEPT ![who] = "chat"]
            /\ last_cycle' = [last_cycle EXCEPT ![who] = "running"]
            /\ active_evaluation' = IF who = "scheduler" THEN who ELSE active_evaluation
    /\ UNCHANGED <<services_up, eval_result, shutdown_pc, waited, abandoned, decisions>>
    /\ UNCHANGED <<runVars, mcpVars, factoryVars, pairVars>>
    /\ UNCHANGED <<convVars, callVars, regVars, agentVars, serverVars, storeVars>>

StartupEvaluation == EvalBegin("startup")
ScheduledEvaluation == EvalBegin("scheduler")

\* `result = await self.ollama.chat_with_tools(...)` returns or raises
EvalChat ==
    \E who \in Evaluators, run_result \in RunResults :
        /\ shutdown_pc # "complete"
        /\ eval_pc[who] = "chat"
        /\ eval_pc' = [eval_pc EXCEPT ![who] = "log"]
        /\ eval_result' = [eval_result EXCEPT ![who] = run_result]
        /\ UNCHANGED <<services_up, startup_pc, last_cycle, active_evaluation,
                       shutdown_pc, waited, abandoned, decisions>>
        /\ UNCHANGED <<runVars, mcpVars, factoryVars, pairVars>>
        /\ UNCHANGED <<convVars, callVars, regVars, agentVars, serverVars, storeVars>>

\* `await self.logger.log_decision(...)`, then run_evaluation returns and
\* the wrapper's finally clears _active_evaluation
EvalLogDecision ==
    \E who \in Evaluators :
        /\ shutdown_pc # "complete"
        /\ eval_pc[who] = "log"
        /\ decisions' = Append(decisions, LoggedDecision(who, eval_result[who]))
        /\ eval_pc' = [eval_pc EXCEPT ![who] = "idle"]
        /\ eval_result' = [eval_result EXCEPT ![who] = NoRunResult]
        /\ last_cycle' = [last_cycle EXCEPT ![who] = "ran"]
        /\ active_evaluation' = IF who = "scheduler" THEN Absent ELSE active_evaluation
        /\ UNCHANGED <<services_up, startup_pc, shutdown_pc, waited, abandoned>>
        /\ UNCHANGED <<runVars, mcpVars, factoryVars, pairVars>>
        /\ UNCHANGED <<convVars, callVars, regVars, agentVars, serverVars, storeVars>>

\* the evaluations that are between their first and their last await
InProgress(pcs) == {who \in Evaluators : pcs[who] # "idle"}

\* lifespan after its yield: `if _active_evaluation and not
\* _active_evaluation.done()` it waits, else scheduler.shutdown(wait=True)
\* follows at once
Shutdown ==
    /\ shutdown_pc = "serving"
    /\ IF active_evaluation # Absent
       THEN /\ shutdown_pc' = "waiting"
            /\ UNCHANGED <<waited, abandoned>>
       ELSE /\ shutdown_pc' = "complete"
            /\ waited' = "not waited"
            /\ abandoned' = InProgress(eval_pc)
    /\ UNCHANGED <<services_up, startup_pc, eval_pc, eval_result, last_cycle,
                   active_evaluation, decisions>>
    /\ UNCHANGED <<runVars, mcpVars, factoryVars, pairVars>>
    /\ UNCHANGED <<convVars, callVars, regVars, agentVars, serverVars, storeVars>>

\* asyncio.wait_for(asyncio.shield(_active_evaluation), timeout=30.0)
\* returns: the tracked task is done
WaitCompleted ==
    /\ shutdown_pc = "waiting"
    /\ active_evaluation = Absent
    /\ shutdown_pc' = "complete"
    /\ waited' = "completed"
    /\ abandoned' = InProgress(eval_pc)
    /\ UNCHANGED <<services_up, startup_pc, eval_pc, eval_result, last_cycle,
                   active_evaluation, decisions>>
    /\ UNCHANGED <<runVars, mcpVars, factoryVars, pairVars>>
    /\ UNCHANGED <<convVars, callVars, regVars, agentVars, serverVars, storeVars>>

\* asyncio.TimeoutError after 30 s: _active_evaluation.cancel(); the
\* CancelledError passes `except Exception`, no decision is logged
WaitTimeout ==
    /\ shutdown_pc = "waiting"
    /\ active_evaluation # Absent
    /\ shutdown_pc' = "complete"
    /\ waited' = "timed out"
    /\ eval_pc' = [eval_pc EXCEPT ![active_evaluation] = "idle"]
    /\ eval_result' = [eval_result EXCEPT ![active_evaluation] = NoRunResult]
    /\ last_cycle' = [last_cycle EXCEPT ![active_evaluation] = "cancelled"]
    /\ active_evaluation' = Absent
    /\ abandoned' = InProgress(eval_pc) \ {active_evaluation}
    /\ UNCHANGED <<services_up, startup_pc, decisions>>
    /\ UNCHANGED <<runVars, mcpVars, factoryVars, pairVars>>
    /\ UNCHANGED <<convVars, callVars, regVars, agentVars, serverVars, storeVars>>

\* an application that was not started
IdleApp ==
    /\ InitApp
    /\ services_up = TRUE

(***************************************************************************)
(* DecisionLogger.get_setting and update_setting on one key                *)
(***************************************************************************)
\* coroutines that use the settings table, each on its own connection
StoreCallers == {1, 2}

\* values and defaults of the key
SettingValues == {"17.0", "18.0"}

\* sqlite3.IntegrityError: UNIQUE constraint failed: settings.key
IntegrityError == "IntegrityError"

InitStore ==
    /\ stored = Absent
    /\ store_pc = [c \in StoreCallers |-> "idle"]
    /\ store_default = [c \in StoreCallers |-> Absent]
    /\ store_returns = [c \in StoreCallers |-> Absent]
    /\ store_calls = 0

\* get_setting up to `row = await cursor.fetchone()`: a row is returned at
\* once, without one the caller goes on to the INSERT
GetSettingSelect ==
    \E c \in StoreCallers, default \in SettingValues :
        /\ store_calls < MaxStoreCalls
        /\ store_pc[c] = "idle"
        /\ store_calls' = store_calls + 1
        /\ IF stored # Absent
           THEN /\ store_returns' = [store_returns EXCEPT ![c] = stored]
                /\ UNCHANGED <<store_pc, store_default>>
           ELSE /\ store_pc' = [store_pc EXCEPT ![c] = "insert"]
                /\ store_default' = [store_default EXCEPT ![c] = default]
                /\ store_returns' = [store_returns EXCEPT ![c] = Absent]
        /\ UNCHANGED stored
        /\ UNCHANGED <<runVars, mcpVars, factoryVars, pairVars>>
        /\ UNCHANGED <<convVars, callVars, regVars, agentVars, serverVars, appVars>>

\* get_setting from "Create default if not exists": the INSERT on the
\* primary key, the commit and the return
GetSettingInsert ==
    \E c \in StoreCallers :
        /\ store_pc[c] = "insert"
        /\ store_pc' = [store_pc EXCEPT ![c] = "idle"]
        /\ IF stored # Absent
           THEN /\ store_returns' = [store_returns EXCEPT ![c] = IntegrityError]
                /\ UNCHANGED stored
           ELSE /\ stored' = store_default[c]
                /\ store_returns' = [store_returns EXCEPT ![c] = store_default[c]]
        /\ UNCHANGED <<store_default, store_calls>>
        /\ UNCHANGED <<runVars, mcpVars, factoryVars, pairVars>>
        /\ UNCHANGED <<convVars, callVars, regVars, agentVars, serverVars, appVars>>

\* update_setting: the UPDATE, the INSERT when no row was updated, and the
\* commit, in one write transaction
UpdateSetting ==
    \E c \in StoreCallers, value \in SettingValues :
        /\ store_calls < MaxStoreCalls
        /\ store_pc[c] = "idle"
        /\ store_calls' = store_calls + 1
        /\ stored' = value
        /\ store_returns' = [store_returns EXCEPT ![c] = "True"]
        /\ UNCHANGED <<store_pc, store_default>>
        /\ UNCHANGED <<runVars, mcpVars, factoryVars, pairVars>>
        /\ UNCHANGED <<convVars, callVars, regVars, agentVars, serverVars, appVars>>

\* a settings table nobody uses
IdleStore == InitStore

\* servers that handled no call
IdleServers == InitServers

IdleSide ==
    /\ IdleConvert /\ IdleCalls /\ IdleRegistrations /\ IdleAgent /\ IdleServers
    /\ IdleApp /\ IdleStore

\* no second run
IdlePair ==
    /\ current = 1
    /\ parked = NewFrame(0)

\* a registry on which no call is running
IdleFactory ==
    /\ InitFactory
    /\ installed = {"ollama", "openai", "anthropic", "google"}
    /\ environ = EmptyEnvironment

\* a client on which no call is running
IdleMCP ==
    /\ server_name = "weather"
    /\ mcp_pc = "idle"
    /\ mcp_name = Absent
    /\ attempt_number = 0
    /\ mcp_result = NoMcpResult
    /\ mcp_method = Absent
    /\ self_tools = {}
    /\ init_returns = "nothing"
    /\ mcp_reply = NoReply
    /\ posts = <<>>
    /\ waits = <<>>
    /\ sent = <<>>

\* an adapter on which no run was started
IdleRun ==
    /\ InitRun
    /\ provider = "ollama"
    /\ system_prompt = Absent
    /\ tools = weather_tools \cup ha_tools
    /\ max_iterations = 0

Init == InitRun /\ IdleMCP /\ IdleFactory /\ IdlePair /\ IdleSide

Next ==
    \/ StartRun
    \/ ModelTurn
    \/ ExecuteTool
    \/ ExecuteToolRaises
    \/ GoogleSendUserMessage
    \/ GoogleSendToolResults

vars == <<runVars, mcpVars, factoryVars, pairVars, sideVars>>

\* the orchestration loop
Spec == Init /\ [][Next]_vars

InitClient == IdleRun /\ InitMCP /\ IdleFactory /\ IdlePair /\ IdleSide

NextClient ==
    \/ Initialize
    \/ InitPostConnectionError
    \/ InitRetry
    \/ InitPostAnswered
    \/ CallTool
    \/ PostConnectionError
    \/ Retry
    \/ PostAnswered

\* the tool transport client
SpecMCP == InitClient /\ [][NextClient]_vars

NextFactory ==
    \/ CreateLlmProvider
    \/ EnsureProvidersRegistered
    \/ RegisterNext
    \/ LookupAndConstruct

\* one caller of create_llm_provider
InitOneCaller == IdleRun /\ IdleMCP /\ IdlePair /\ InitFactory /\ IdleSide
SpecFactory == InitOneCaller /\ [][NextFactory]_vars

InitTwoCallers == IdleRun /\ IdleMCP /\ IdlePair /\ InitConcurrent /\ IdleSide

\* two callers of create_llm_provider in parallel, on an empty registry
SpecRegistry == InitTwoCallers /\ [][NextFactory]_vars

InitTwoRuns == InitPair /\ IdleMCP /\ IdleFactory /\ IdleSide

NextPair ==
    \/ Next
    \/ Switch

\* two runs on one provider instance
SpecPair == InitTwoRuns /\ [][NextPair]_vars

InitConversion ==
    /\ IdleRun /\ IdleMCP /\ IdleFactory /\ IdlePair
    /\ InitConvert /\ IdleCalls /\ IdleRegistrations /\ IdleAgent
    /\ IdleServers /\ IdleApp /\ IdleStore

NextConvert == ConvertTools

\* one conversion of a list of tool definitions
SpecConvert == InitConversion /\ [][NextConvert]_vars

InitTwoCalls ==
    /\ IdleRun /\ IdleFactory /\ IdlePair
    /\ IdleConvert /\ IdleRegistrations /\ IdleAgent
    /\ IdleServers /\ IdleApp /\ IdleStore
    /\ InitCalls

NextCalls ==
    \/ CallTool
    \/ PostConnectionError
    \/ Retry
    \/ PostAnswered
    \/ SwitchCall
    \/ HealthCheck

\* two call_tool coroutines and health checks on an initialized client
SpecCalls == InitTwoCalls /\ [][NextCalls]_vars

InitClimateAgent ==
    /\ IdleRun /\ IdleMCP /\ IdleFactory /\ IdlePair
    /\ IdleConvert /\ IdleCalls /\ IdleRegistrations /\ IdleServers
    /\ InitAgent
    /\ InitApp
    /\ IdleStore

NextAgent ==
    \/ AgentLoggerInitialize
    \/ AgentLoggerInitializeRaises
    \/ AgentHealthCheck
    \/ AgentClientInitialize
    \/ AgentWeatherInitialized
    \/ AgentHaInitialized

\* one call of ClimateAgent.initialize
SpecAgent == InitClimateAgent /\ [][NextAgent]_vars

NextApp ==
    \/ NextAgent
    \/ ServicesRecover
    \/ StartupAfterInitialize
    \/ StartupEvaluation
    \/ ScheduledEvaluation
    \/ EvalChat
    \/ EvalLogDecision
    \/ Shutdown
    \/ WaitCompleted
    \/ WaitTimeout

\* the application from the start of the startup task to its shutdown
SpecApp == InitClimateAgent /\ [][NextApp]_vars

\* the event loop runs every task that is ready, and the interval job of the
\* scheduler keeps being fired
Fairness ==
    /\ WF_vars(NextAgent)
    /\ WF_vars(StartupAfterInitialize)
    /\ WF_vars(StartupEvaluation)
    /\ WF_vars(ScheduledEvaluation)
    /\ WF_vars(EvalChat)
    /\ WF_vars(EvalLogDecision)

SpecAppLive == InitClimateAgent /\ [][NextApp]_vars /\ Fairness

InitSettings ==
    /\ IdleRun /\ IdleMCP /\ IdleFactory /\ IdlePair
    /\ IdleConvert /\ IdleCalls /\ IdleRegistrations /\ IdleAgent
    /\ IdleServers /\ IdleApp
    /\ InitStore

NextSettings ==
    \/ GetSettingSelect
    \/ GetSettingInsert
    \/ UpdateSetting

\* two coroutines that read and write one key of the settings table
SpecSettings == InitSettings /\ [][NextSettings]_vars

InitLazy ==
    /\ IdleRun /\ IdleMCP /\ IdlePair /\ IdleSide
    /\ InitFactory
    /\ environ = EmptyEnvironment

\* a module registers its provider class when it is imported, before the
\* first call of create_llm_provider
RegisterCustomFirst ==
    /\ registrations = <<>>
    /\ \A t \in threads : f_pc[t] = "idle"
    /\ RegisterProvider

NextLazy ==
    \/ RegisterCustomFirst
    \/ NextFactory

\* register_provider calls and one caller of create_llm_provider
SpecLazy == InitLazy /\ [][NextLazy]_vars

InitThermostatServers ==
    /\ IdleRun /\ IdleMCP /\ IdleFactory /\ IdlePair
    /\ IdleConvert /\ IdleCalls /\ IdleRegistrations /\ IdleAgent
    /\ IdleApp /\ IdleStore
    /\ InitServers

NextServers ==
    \/ HaSetTemperature
    \/ EcobeeSetTemperature

\* set_thermostat_temperature calls handled by the two thermostat servers
SpecServers == InitThermostatServers /\ [][NextServers]_vars

InitRegister == IdleRun /\ IdleMCP /\ IdleFactory /\ IdlePair /\ IdleSide

NextRegister == RegisterProvider

\* callers of register_provider on an empty registry
SpecRegister == InitRegister /\ [][NextRegister]_vars

(***************************************************************************)
(* Properties of the orchestration loop (Spec)                             *)
(***************************************************************************)
IsPrefix(s, t) == Len(s) <= Len(t) /\ \A i \in 1..Len(s) : s[i] = t[i]

\* the i-th record is the execution of the i-th requested tool call
RecordMatches(rec, req) ==
    /\ rec.tool = req.name
    /\ rec.arguments = ToolArgs(provider, req.arguments)

\* no model request failed and every reply so far carried a tool call
AlwaysRequestsTools ==
    /\ response.error = Absent
    /\ \A k \in 1..chat_calls : \E i \in 1..Len(requested) : requested[i].turn = k

\* C1: in the Ollama loop with max_iterations = N >= 1 there is never an
\* (N+1)-th model request, and a run in which no model request failed and
\* every reply carried a tool call returns, once the tool calls of the N-th
\* reply are executed, the sentinel text with iterations = N after exactly
\* N model requests.
C1_OllamaStopsAfterNModelCalls ==
    (provider = "ollama" /\ max_iterations >= 1) =>
        /\ chat_calls <= max_iterations
        /\ (AlwaysRequestsTools /\ chat_calls = max_iterations
                /\ Len(tool_calls_made) = Len(requested))
              => pc = "max_iterations"
        /\ (AlwaysRequestsTools /\ pc \in Terminal) =>
              /\ pc = "max_iterations"
              /\ chat_calls = max_iterations
              /\ result.final_response = Sentinel
              /\ "iterations" \in result.keys
              /\ result.iterations = max_iterations

C1_Witness ==
    /\ provider = "ollama"
    /\ max_iterations = 2
    /\ pc = "max_iterations"
    /\ chat_calls = 2
    /\ AlwaysRequestsTools

\* the three outcomes of a run, read off what it returned
DoneOutcome ==
    /\ "error" \notin result.keys
    /\ response.error = Absent
    /\ response.tool_calls = <<>>
    /\ result.final_response = response.content
ErrorOutcome == "error" \in result.keys
MaxIterationsOutcome ==
    /\ "error" \notin result.keys
    /\ result.final_response = Sentinel

\* C2: a run that has returned has returned in exactly one of the three
\* outcomes DONE (the text of a reply without tool calls), ERROR (error key
\* set), MAX_ITERATIONS (the sentinel text).
C2_ReturnsInOneOfThreeOutcomes ==
    pc \in Terminal =>
        /\ DoneOutcome \/ ErrorOutcome \/ MaxIterationsOutcome
        /\ ~(DoneOutcome /\ ErrorOutcome)
        /\ ~(DoneOutcome /\ MaxIterationsOutcome)
        /\ ~(ErrorOutcome /\ MaxIterationsOutcome)

\* C3: tool_calls_made lists the executed tool calls in the order they were
\* requested, within a reply and across replies, the returned list is that
\* list, and a step only ever appends to it.
C3_RecordsInRequestOrder ==
    /\ [](/\ Len(tool_calls_made) <= Len(requested)
          /\ \A i \in 1..Len(tool_calls_made) :
                RecordMatches(tool_calls_made[i], requested[i])
          /\ \A i, j \in 1..Len(tool_calls_made) :
                i < j => requested[i].turn <= requested[j].turn
          /\ pc \in Terminal => result.tool_calls_made = tool_calls_made)
    /\ [][IsPrefix(tool_calls_made, tool_calls_made')]_vars

C3_Witness ==
    /\ chat_calls >= 2
    /\ Len(tool_calls_made) >= 3
    /\ tool_calls_made[1].tool # tool_calls_made[2].tool
    /\ requested[2].turn = 1
    /\ requested[3].turn = 2

\* C4: when the k-th model request fails the run returns that error with an
\* empty final_response and exactly the records of the tool calls of the
\* replies 1..k-1, and afterwards makes no model request and runs no tool.
C4_ModelFailureEndsRun ==
    /\ []((pc = "error" /\ response.error # Absent) =>
            /\ result.keys = {"error", "final_response", "tool_calls_made"}
            /\ result.error = response.error
            /\ result.final_response = ""
            /\ result.tool_calls_made = tool_calls_made
            /\ Len(tool_calls_made) = Len(requested)
            /\ Len(invoked) = Len(requested)
            /\ \A i \in 1..Len(requested) :
                  /\ requested[i].turn < chat_calls
                  /\ RecordMatches(result.tool_calls_made[i], requested[i]))
    /\ [][pc = "error" => (chat_calls' = chat_calls /\ invoked' = invoked)]_vars

C4_Witness ==
    /\ pc = "error"
    /\ response.error = "timeout"
    /\ chat_calls = 2
    /\ Len(tool_calls_made) >= 2

\* C5: a run never throws to its caller, also when the tool-executor
\* callback raises.
C5_RunNeverRaises == pc # "raised"

\* C6: a reply without tool calls ends the run as DONE: final_response is
\* the reply's text, no tool is executed for it, iterations is the number of
\* model requests made, and if it is the first reply tool_calls_made is empty.
C6_DoneAtFirstReplyWithoutToolCalls ==
    (chat_calls >= 1 /\ response.error = Absent /\ response.tool_calls = <<>>) =>
        /\ pc = "done"
        /\ result.final_response = response.content
        /\ result.iterations = chat_calls
        /\ Len(invoked) = Len(result.tool_calls_made)
        /\ chat_calls = 1 => (result.iterations = 1 /\ result.tool_calls_made = <<>>)

\* C7: a run does not end as DONE on a reply that carries tool calls: every
\* tool call of every received reply is executed and recorded first.
C7_ToolCallsBeforeDone ==
    pc = "done" =>
        /\ response.tool_calls = <<>>
        /\ Len(tool_calls_made) = Len(requested)

\* C8: no tools/call is sent to a tool server for a name that is not among
\* the tool definitions given to the run; such a call is recorded with the
\* "unknown tool" error result.
C8_OnlySuppliedToolsAreCalled ==
    /\ \A i \in 1..Len(dispatched) : dispatched[i].name \in tools
    /\ \A i \in 1..Len(tool_calls_made) :
          tool_calls_made[i].tool \notin tools =>
              tool_calls_made[i].result = UnknownTool(tool_calls_made[i].tool)

\* what the executor has to be called with for arguments that arrive as
\* JSON text
DecodedOrEmpty(raw) ==
    CASE raw = TempJson -> TempDict
      [] raw = EmptyJson -> EmptyDict
      [] OTHER -> EmptyDict

\* C19: in the Ollama loop a tool call whose arguments arrive as a string
\* is executed with the JSON-decoded value of the string, or with {} if
\* the string is not valid JSON; the call is then recorded with these
\* arguments and the run goes on: it ends in error only when a model
\* request failed.
C19_OllamaStringArguments ==
    provider = "ollama" =>
        /\ Len(invoked) <= Len(requested)
        /\ \A i \in 1..Len(invoked) :
              /\ invoked[i].name = requested[i].name
              /\ requested[i].arguments.t = "str" =>
                    invoked[i].arguments = DecodedOrEmpty(requested[i].arguments)
        /\ \A i \in 1..Len(tool_calls_made) :
              /\ tool_calls_made[i].tool = requested[i].name
              /\ requested[i].arguments.t = "str" =>
                    tool_calls_made[i].arguments = DecodedOrEmpty(requested[i].arguments)
        /\ pc = "error" => response.error # Absent

C19_Witness ==
    /\ provider = "ollama"
    /\ pc = "done"
    /\ Len(tool_calls_made) = 2
    /\ requested[1].arguments = TempJson
    /\ tool_calls_made[1].arguments = TempDict
    /\ requested[2].arguments = BadJson
    /\ tool_calls_made[2].tool = "open_garage_door"
    /\ tool_calls_made[2].arguments = EmptyDict

\* the results of the tool calls of the most recent response are in the
\* history (Gemini: in the function responses about to be sent), in order
ResultsInHistory ==
    LET n == Len(response.tool_calls)
        rec(j) == tool_calls_made[Len(tool_calls_made) - n + j]
    IN  CASE provider \in {"ollama", "openai"} ->
               /\ Len(messages) >= n + 2
               /\ messages[Len(messages) - n].role = "assistant"
               /\ \A j \in 1..n :
                     /\ messages[Len(messages) - n + j].role = "tool"
                     /\ messages[Len(messages) - n + j].content = ResultContent(rec(j).result)
          [] provider = "anthropic" ->
               /\ Len(messages) >= 3
               /\ messages[Len(messages)].role = "user"
               /\ Len(messages[Len(messages)].content) = n
               /\ \A j \in 1..n :
                     messages[Len(messages)].content[j].content = ResultContent(rec(j).result)
          [] OTHER ->
               /\ Len(turn_results) = n
               /\ \A j \in 1..n : turn_results[j].response.result = rec(j).result

\* C20: model requests and tool executions alternate by turn: a tool is
\* executed only for a tool call of the most recent model response, one
\* call per step and in the order of the response, and a further model
\* request is made only when every tool call of that response has been
\* executed and its result is in the history and in tool_calls_made.
C20_TurnsAlternate ==
    /\ [](pc = "exec_tools" =>
            /\ tool_calls = response.tool_calls
            /\ requested # <<>>
            /\ requested[Len(requested)].turn = chat_calls
            /\ Len(invoked) = Len(requested) - Len(tool_calls) + next_call - 1)
    /\ []((pc \in {"await_model", "send_results"} /\ chat_calls > 0) =>
            /\ Len(invoked) = Len(requested)
            /\ Len(tool_calls_made) = Len(requested)
            /\ \A i \in 1..Len(requested) :
                  /\ tool_calls_made[i].tool = requested[i].name
                  /\ invoked[i].name = requested[i].name
            /\ ResultsInHistory)
    /\ [][chat_calls' # chat_calls => pc \in {"await_model", "send_results"}]_vars
    /\ [][invoked' # invoked =>
            /\ pc = "exec_tools"
            /\ chat_calls' = chat_calls
            /\ Len(invoked') = Len(invoked) + 1
            /\ invoked'[Len(invoked')].name = response.tool_calls[next_call].function.name]_vars

C20_Witness ==
    /\ pc = "await_model"
    /\ chat_calls = 1
    /\ Len(response.tool_calls) = 2
    /\ Len(tool_calls_made) = 2
    /\ tool_calls_made[1].tool # tool_calls_made[2].tool

\* what the executor returned so far, in the order of its invocations
CompletedInvocations == SelectSeq(heard, LAMBDA e : e.kind = "tool" /\ e.result # Raised)

\* the largest number of tool calls in one model response of this run
LargestResponse ==
    LET sizes == {Len(heard[i].response.tool_calls) :
                     i \in {k \in 1..Len(heard) : heard[k].kind = "reply"}}
    IN  IF sizes = {} THEN 0 ELSE CHOOSE n \in sizes : \A m \in sizes : m <= n

\* C21: at every point of a run tool_calls_made has exactly one record per
\* completed executor invocation, with that invocation's tool name, arguments
\* and returned result, and never more than max_iterations times the largest
\* number of tool calls of one model response.
C21_OneRecordPerCompletedInvocation ==
    /\ pc # "start" => Len(tool_calls_made) = Len(CompletedInvocations)
    /\ pc # "start" =>
         \A i \in 1..Len(tool_calls_made) :
            /\ DOMAIN tool_calls_made[i] = {"tool", "arguments", "result"}
            /\ tool_calls_made[i].tool = CompletedInvocations[i].call.function.name
            /\ tool_calls_made[i].arguments = CompletedInvocations[i].args
            /\ tool_calls_made[i].result = CompletedInvocations[i].result
    /\ Len(tool_calls_made) <= max_iterations * LargestResponse

C21_Witness ==
    /\ pc = "max_iterations"
    /\ max_iterations = MaxIter
    /\ LargestResponse = MaxCalls
    /\ Len(tool_calls_made) = max_iterations * LargestResponse
    /\ \E i \in 1..Len(tool_calls_made) : tool_calls_made[i].result = ConnectionError

\* C22: within one turn the ids of the requested tool calls are pairwise
\* distinct, also where the id is made from the tool name, so that a tool
\* result belongs to exactly one request even if a tool is requested twice.
C22_CallIdsDistinctWithinTurn ==
    (pc = "exec_tools" /\ provider # "ollama") =>
        \A i, j \in 1..Len(tool_calls) :
            i # j => tool_calls[i].id # tool_calls[j].id

\* C23: the history starts as the single user message and only grows by
\* appending; a tool turn appends the assistant message with the requested
\* tool calls and then one tool message per tool call in request order, each
\* carrying the id of the call it answers; nothing in it is changed or removed.
C23_HistoryIsAppendOnly ==
    /\ []((provider \in {"ollama", "openai"} /\ pc # "start") =>
            (messages # <<>> /\ messages[1] = UserMessage))
    /\ [][(provider \in {"ollama", "openai"}) => IsPrefix(messages, messages')]_vars
    /\ [][(provider \in {"ollama", "openai"} /\ pc = "await_model" /\ pc' = "exec_tools") =>
            /\ Len(messages') = Len(messages) + 1
            /\ messages'[Len(messages')].role = "assistant"
            /\ Len(messages'[Len(messages')].tool_calls) = Len(tool_calls')]_vars
    /\ [][(provider \in {"ollama", "openai"} /\ pc = "exec_tools"
                /\ tool_calls_made' # tool_calls_made) =>
            /\ Len(messages') = Len(messages) + 1
            /\ messages'[Len(messages')].role = "tool"
            /\ messages'[Len(messages')].content
                  = ResultContent(tool_calls_made'[Len(tool_calls_made')].result)
            /\ "tool_call_id" \in DOMAIN messages'[Len(messages')]
            /\ messages'[Len(messages')].tool_call_id = tool_calls[next_call].id]_vars

\* C24: the dict a run returns carries final_response, tool_calls_made and
\* an integer iterations in each of the outcomes DONE, ERROR and
\* MAX_ITERATIONS, and the key error exactly in the outcome ERROR.
C24_RunResultShape ==
    pc \in Terminal =>
        /\ {"final_response", "tool_calls_made", "iterations"} \subseteq result.keys
        /\ result.iterations \in Nat
        /\ ("error" \in result.keys) <=> (pc = "error")

\* the messages of role system in a list of messages
SystemMessages(msgs) == SelectSeq(msgs, LAMBDA m : m.role = "system")

\* C29: chat() given a system prompt sends it exactly once, as the first
\* message of the request, and leaves the caller's list as it was: every
\* request of a run carries exactly one system message, followed by the
\* history, and the history never holds a system message.
C29_SystemPromptSentOnce ==
    /\ []((provider \in {"ollama", "openai"}) => SystemMessages(messages) = <<>>)
    /\ [][(provider \in {"ollama", "openai"} /\ chat_calls' = chat_calls + 1) =>
            /\ IsPrefix(messages, messages')
            /\ IF Truthy(system_prompt)
               THEN /\ payload'.messages = <<SystemMessage(system_prompt)>> \o messages
                    /\ Len(SystemMessages(payload'.messages)) = 1
               ELSE payload'.messages = messages]_vars

C29_Witness ==
    /\ provider = "ollama"
    /\ Truthy(system_prompt)
    /\ chat_calls = 2
    /\ Len(payload.messages) >= 4
    /\ payload.messages[1] = SystemMessage(system_prompt)
    /\ messages[1] = UserMessage

\* C30: a Google run sends at most max_iterations messages to the model (the
\* user message and the tool-result messages); with a model that always
\* requests a tool call it makes exactly max_iterations requests.
C30_GoogleSendsAtMostNMessages ==
    provider = "google" =>
        /\ chat_calls <= max_iterations
        /\ pc = "max_iterations" => chat_calls = max_iterations


\* C31: in the OpenAI adapter a tool call whose arguments string is not
\* valid JSON is executed with the empty mapping and the run goes on: the
\* parse failure does not make the model response an error, does not end
\* the run and does not drop the other tool calls of the response.
C31_OpenAIBadArgumentsFallBack ==
    provider = "openai" =>
        /\ response.error # JSONDecodeError.v
        /\ (pc = "error" => result.error # JSONDecodeError.v)
        /\ \A i \in 1..Len(invoked) : invoked[i].arguments.t = "dict"

\* C32: when a run with max_iterations >= 1 ends as MAX_ITERATIONS, the tool
\* calls of the last model response have been executed and are the last
\* records of tool_calls_made; in the Ollama, OpenAI and Anthropic loops no
\* model request follows them, so their results are never sent to the model.
C32_LastTurnExecutedAtMaxIterations ==
    (pc = "max_iterations" /\ max_iterations >= 1) =>
        LET k == Len(tool_calls)
            n == Len(tool_calls_made)
        IN  /\ k >= 1
            /\ n >= k
            /\ \A i \in 1..k :
                  /\ tool_calls_made[n - k + i].tool = tool_calls[i].function.name
                  /\ tool_calls_made[n - k + i].arguments
                        = ToolArgs(provider, tool_calls[i].function.arguments)
                  /\ invoked[Len(invoked) - k + i].name = tool_calls[i].function.name
            /\ result.final_response = Sentinel
            /\ result.tool_calls_made = tool_calls_made
            /\ provider # "google" =>
                  /\ response.tool_calls = tool_calls
                  /\ chat_calls = max_iterations
                  /\ heard[Len(heard)].kind = "tool"

C32_Witness ==
    /\ pc = "max_iterations"
    /\ provider = "anthropic"
    /\ max_iterations = MaxIter
    /\ Len(response.tool_calls) = 2
    /\ tool_calls_made[Len(tool_calls_made)].tool = "set_thermostat_temperature"
    /\ tool_calls_made[Len(tool_calls_made)].result = Payload("set_thermostat_temperature")
    /\ result.final_response = Sentinel

\* C34: every tool call the router returned a result for was sent to exactly
\* one server, the weather server for a weather tool name and the Home
\* Assistant server for a thermostat tool name; any other name got the
\* "Unknown tool" error result and nothing was sent
C34_RoutedToOneServer ==
    LET known == SelectSeq(tool_calls_made,
                           LAMBDA c : c.tool \in weather_tools \cup ha_tools)
    IN  /\ Len(dispatched) = Len(known)
        /\ \A i \in 1..Len(dispatched) :
              /\ dispatched[i].name = known[i].tool
              /\ dispatched[i].server
                    = (IF known[i].tool \in weather_tools THEN "weather" ELSE "ha")
        /\ \A i \in 1..Len(tool_calls_made) :
              tool_calls_made[i].tool \notin weather_tools \cup ha_tools
                  => tool_calls_made[i].result = UnknownTool(tool_calls_made[i].tool)

C34_Witness ==
    /\ Len(invoked) = 3
    /\ invoked[1].name = "get_current_weather"
    /\ invoked[2].name = "set_thermostat_temperature"
    /\ invoked[3].name = "open_garage_door"
    /\ dispatched = <<[server |-> "weather", name |-> "get_current_weather"],
                      [server |-> "ha", name |-> "set_thermostat_temperature"]>>
    /\ tool_calls_made[3].result = UnknownTool("open_garage_door")

\* C35: the Home Assistant set_temperature service and the Ecobee setHold are
\* never given a temperature below MIN_TEMP or above MAX_TEMP, and a call
\* whose temperature is missing or out of range returns an error text and
\* writes nothing upstream
C35_WritesWithinBounds ==
    /\ \A i \in 1..Len(ha_writes) :
          /\ ha_writes[i].temperature >= MIN_TEMP
          /\ ha_writes[i].temperature <= MAX_TEMP
    /\ \A i \in 1..Len(ecobee_writes) :
          /\ ecobee_writes[i].heatHoldTemp >= c_to_ecobee_format(MIN_TEMP)
          /\ ecobee_writes[i].coolHoldTemp <= c_to_ecobee_format(MAX_TEMP)
    /\ \A i \in 1..Len(tool_texts) :
          (\/ tool_texts[i].temperature.t = "None"
           \/ /\ tool_texts[i].temperature.t = "number"
              /\ OutOfBounds(tool_texts[i].temperature.v))
              => /\ ~tool_texts[i].wrote
                 /\ tool_texts[i].text \notin {SuccessText}
    /\ Len(ha_writes) + Len(ecobee_writes)
          = Cardinality({i \in 1..Len(tool_texts) : tool_texts[i].wrote})

\* C33: once create_llm_provider has run, every built-in backend whose client
\* library is importable is in the registry, whatever register_provider calls
\* preceded it
C33_BuiltinsRegisteredAfterCreate ==
    (\E t \in threads : f_pc[t] \in {"returned", "raised"}) =>
        installed \subseteq DOMAIN PROVIDER_REGISTRY

(***************************************************************************)
(* Properties of the tool conversion (SpecConvert)                         *)
(***************************************************************************)
\* the inverse mapping: name and required list of a provider-native tool,
\* and of a tool definition
NativeName(t) == t.function.name
NativeRequired(t) == t.function.schema.required
DefinedRequired(t) == GetParameters(t.function).required

\* C25: for every adapter and every list of tool definitions in the function
\* shape, the conversion yields one provider tool per input tool, in the
\* same order, each with the tool's name and the required list of its
\* parameter schema.
C25_ConversionPreservesNameAndRequired ==
    conv_pc = "converted" =>
        /\ Len(converted) = Len(conv_tools)
        /\ \A i \in 1..Len(conv_tools) :
              /\ NativeName(converted[i]) = NativeName(conv_tools[i])
              /\ NativeRequired(converted[i]) = DefinedRequired(conv_tools[i])

(***************************************************************************)
(* Properties of concurrent calls on one client (SpecCalls)                *)
(***************************************************************************)
\* a call_tool that is over returned what follows from the answers to its
\* own requests
ReturnsItsOwnResult(f) ==
    f.mcp_pc = "returned" =>
        f.mcp_result =
            IF CallToolCatches(f.posts[Len(f.posts)])
            THEN ExceptionResult(f.posts[Len(f.posts)])
            ELSE ClassifyReply(f.mcp_reply)

\* C27: the cached tool list is read-only after initialize: call_tool and
\* health_check never change it, however concurrent calls on the client are
\* interleaved, and what a call_tool returns is not changed by a concurrent
\* call_tool on the same client.
C27_ToolListReadOnlyAfterInitialize ==
    /\ [](self_tools = ServerTools(server_name))
    /\ [][self_tools' = self_tools /\ init_returns' = init_returns]_vars
    /\ [](ReturnsItsOwnResult(CallFrame) /\ ReturnsItsOwnResult(call_parked))

C27_Witness ==
    /\ mcp_pc = "returned"
    /\ call_parked.mcp_pc = "returned"
    /\ Len(posts) = 2
    /\ Len(call_parked.posts) = StopAfterAttempt
    /\ mcp_name # call_parked.mcp_name
    /\ mcp_result.returns = "payload"
    /\ call_parked.mcp_result = ExceptionResult("RequestError")
    /\ health_returns = "False"
    /\ self_tools = ServerTools(server_name)

(***************************************************************************)
(* Properties of the registry (SpecRegister)                               *)
(***************************************************************************)
\* the class of the latest registration under a name, case ignored
RECURSIVE LastRegistered(_, _)
LastRegistered(log, name) ==
    IF log = <<>> THEN Absent
    ELSE IF Lower(log[Len(log)].name) = Lower(name) THEN log[Len(log)].provider_class
    ELSE LastRegistered(SubSeq(log, 1, Len(log) - 1), name)

\* C28: register_provider is idempotent and the last writer wins: after any
\* sequence of registrations get_provider_class(name) is the class of the
\* latest registration whose name equals it ignoring case, and registering a
\* name and class a second time leaves the registry as it was.
C28_RegisterIsIdempotentLastWriterWins ==
    /\ [](\A name \in RegisteredNames \cup {"ollama"} :
            get_provider_class(PROVIDER_REGISTRY, name) = LastRegistered(registrations, name))
    /\ [][(/\ registrations # <<>>
           /\ Len(registrations') = Len(registrations) + 1
           /\ registrations'[Len(registrations')] = registrations[Len(registrations)]) =>
             PROVIDER_REGISTRY' = PROVIDER_REGISTRY]_vars

C28_Witness ==
    /\ Len(registrations) = 3
    /\ registrations[1] = [name |-> "custom", provider_class |-> "CustomProvider"]
    /\ registrations[2] = [name |-> "Custom", provider_class |-> "OtherProvider"]
    /\ registrations[3] = registrations[2]
    /\ get_provider_class(PROVIDER_REGISTRY, "custom") = "OtherProvider"
    /\ DOMAIN PROVIDER_REGISTRY = {"custom"}

(***************************************************************************)
(* Properties of ClimateAgent.initialize (SpecAgent)                       *)
(***************************************************************************)
\* C26: initialize first initializes the decision store, then loads the
\* stored settings, then builds the LLM provider from exactly those settings
\* with create_llm_provider(settings=...), and only then health-checks the
\* provider it built; it returns True when that health check and both MCP
\* client initializations succeed.
C26_InitializeBuildsProviderFromSettings ==
    agent_pc = "returned" =>
        /\ Len(agent_steps) >= 4
        /\ agent_steps[1].step = "logger.initialize"
        /\ agent_steps[2].step = "get_all_settings"
        /\ agent_steps[3].step = "create_llm_provider"
        /\ agent_steps[3].on = agent_settings
        /\ agent_steps[4].step = "health_check"
        /\ agent_steps[4].on = "self.llm"
        /\ (agent_returns = "True") <=>
              (/\ Len(agent_steps) = 6
               /\ \A i \in 4..6 : agent_steps[i].ok = "True")

(***************************************************************************)
(* Properties of the application (SpecApp)                                 *)
(***************************************************************************)
\* the awaited steps of an initialize that succeeded
SuccessfulSteps ==
    <<Step("logger.initialize", "self.logger", "None"),
      Step("health_check", "self.ollama", "True"),
      Step("initialize", "self.weather_client", "True"),
      Step("initialize", "self.ha_client", "True")>>

\* C36: run_evaluation is past its first line (and so can call the model or
\* a tool) only when initialized is True; initialized is True only after the
\* database initialization, the LLM health check and both MCP client
\* initializations succeeded in that order; a failed step is the last step of
\* initialize and leaves the flag False; the flag is never reset
C36_EvaluationOnlyWhenInitialized ==
    /\ [](/\ \A who \in Evaluators : eval_pc[who] # "idle" => initialized
          /\ decisions # <<>> => initialized
          /\ initialized => agent_steps = SuccessfulSteps
          /\ (agent_pc \in {"returned", "raised"} /\ ~initialized) =>
                /\ agent_steps[Len(agent_steps)].ok \in {"False", "raised"}
                /\ \A i \in 1..(Len(agent_steps) - 1) :
                      /\ agent_steps[i] = SuccessfulSteps[i]
                /\ agent_returns \in {"False", "raised"})
    /\ [][initialized => initialized']_vars

\* C37: when initialize failed at startup because the LLM was down and the
\* LLM has come up, a later scheduled evaluation initializes the agent (as
\* long as the application is not shut down). A skipped cycle returns at the
\* first line of run_evaluation and changes nothing, so a behaviour in which
\* every later cycle is skipped ends in steps that leave the state as it is.
C37_InitializationRetried ==
    (/\ startup_pc \in {"evaluate", "done", "failed"}
     /\ ~initialized
     /\ agent_steps[Len(agent_steps)].step = "health_check"
     /\ services_up
     /\ shutdown_pc = "serving")
        ~> (initialized \/ shutdown_pc # "serving")

\* C38: when the scheduler is shut down no evaluation cycle is in progress
\* that shutdown did not wait for: a cycle still running was waited for until
\* the 30 s timeout and then cancelled
C38_ShutdownWaitsForEvaluation ==
    shutdown_pc = "complete" => abandoned = {}

\* C39: a decision logged for a run that ended in error (its result carries
\* an error, or the run raised) has action ERROR and success false
C39_ErrorRunLoggedAsFailure ==
    \A i \in 1..Len(decisions) :
        decisions[i].result \in {"error", "raised"} =>
            /\ decisions[i].action = "ERROR"
            /\ ~decisions[i].success

\* C40: no get_setting or update_setting call fails, whatever the calls on
\* the key and however two of them interleave
C40_NoSettingCallFails ==
    \A c \in StoreCallers : store_returns[c] # IntegrityError

C36_Witness ==
    /\ initialized
    /\ last_cycle["scheduler"] = "skipped"
    /\ last_cycle["startup"] = "ran"
    /\ Len(decisions) = 1

(***************************************************************************)
(* Properties of two interleaved runs (SpecPair)                           *)
(***************************************************************************)
\* the ToolCallRecords that follow from what a run got from its executor
RECURSIVE ReplayRecords(_)
ReplayRecords(h) ==
    IF h = <<>> THEN <<>>
    ELSE LET e == h[Len(h)]
             before == ReplayRecords(SubSeq(h, 1, Len(h) - 1))
         IN  IF e.kind = "tool" /\ e.result # Raised
             THEN Append(before, ToolCallRecord(e.call.function.name, e.args, e.result))
             ELSE before

\* the Ollama history that follows from what a run got from the model and
\* from its executor
RECURSIVE ReplayMessages(_)
ReplayMessages(h) ==
    IF h = <<>> THEN <<UserMessage>>
    ELSE LET e == h[Len(h)]
             before == ReplayMessages(SubSeq(h, 1, Len(h) - 1))
         IN  IF e.kind = "tool"
             THEN IF e.result = Raised THEN before
                  ELSE Append(before, [role |-> "tool", content |-> ResultContent(e.result)])
             ELSE IF e.response.error = Absent /\ e.response.tool_calls # <<>>
                  THEN Append(before, [role |-> "assistant", content |-> e.response.content,
                                       tool_calls |-> e.response.tool_calls])
                  ELSE before

\* the replies of the model in what a run got
Replies(h) == SelectSeq(h, LAMBDA e : e.kind = "reply")

\* the locals of a run hold what follows from the replies and tool results
\* this run got, and nothing else
OwnsItsState(f) ==
    /\ f.tool_calls_made = ReplayRecords(f.heard)
    /\ (provider = "ollama" /\ f.pc # "start") => f.messages = ReplayMessages(f.heard)
    /\ \A i \in 1..Len(f.tool_calls_made) :
          /\ f.tool_calls_made[i].tool = f.requested[i].name
          /\ f.tool_calls_made[i].tool = f.invoked[i].name
    /\ f.pc \in Terminal =>
          /\ f.result.tool_calls_made = ReplayRecords(f.heard)
          /\ f.pc = "done" =>
                f.result.final_response = Replies(f.heard)[Len(Replies(f.heard))].response.content
          /\ f.pc = "max_iterations" =>
                (f.result.final_response = Sentinel /\ f.result.iterations = f.max_iterations)
          /\ (f.pc = "error" /\ provider = "ollama") =>
                f.result.error = Replies(f.heard)[Len(Replies(f.heard))].response.error

\* C15: two chat_with_tools runs interleaved on one provider instance
\* share no run state: at every point of every interleaving the history
\* and tool_calls_made of each run are the ones that follow from the
\* replies and tool results this run got, and so is the result it returns.
C15_RunsShareNoState ==
    /\ OwnsItsState(Frame)
    /\ OwnsItsState(parked)

C15_Witness ==
    /\ provider = "ollama"
    /\ pc = "max_iterations"
    /\ parked.pc = "max_iterations"
    /\ Len(tool_calls_made) = 2
    /\ Len(parked.tool_calls_made) = 2
    /\ tool_calls_made[1].tool # parked.tool_calls_made[1].tool
    /\ heard[2].result = ConnectionError
    /\ parked.heard[2].result # ConnectionError

(***************************************************************************)
(* Properties of the tool transport client (SpecMCP)                       *)
(***************************************************************************)
AllAttemptsFailed == \A i \in 1..Len(posts) : posts[i] = "RequestError"

\* C9: a call_tool whose every POST fails at connection level makes at most
\* 3 POSTs, sleeps 1 s, 2 s, ... (doubling, never more than 10 s, never less
\* than the wait before) between them, and then returns an error result;
\* call_tool never raises.
C9_AtMostThreeAttempts ==
    /\ AllAttemptsFailed => Len(posts) <= 3
    /\ \A i \in 1..Len(waits) :
          /\ waits[i] <= 10
          /\ waits[i] = IF 2^(i - 1) <= 10 THEN 2^(i - 1) ELSE 10
          /\ i > 1 => waits[i - 1] <= waits[i]
    /\ mcp_pc = "post" => Len(waits) = Len(posts)
    /\ mcp_pc # "raised"
    /\ (AllAttemptsFailed /\ Len(posts) = 3) =>
          /\ mcp_pc = "returned"
          /\ mcp_result.returns = "dict"
          /\ mcp_result.keys = {"error"}
    /\ (AllAttemptsFailed /\ mcp_pc = "returned") => Len(posts) = 3

C9_Witness ==
    /\ mcp_pc = "returned"
    /\ posts = <<"RequestError", "RequestError", "RequestError">>
    /\ waits = <<1, 2>>

\* C10: a POST is made again only after a connection-level failure: an
\* answered POST is the last one of its call_tool, so a call whose first
\* POST is answered makes exactly one, and an RPC error object is returned
\* as {"error": message}.
C10_AnsweredPostIsFinal ==
    /\ \A i \in 1..(Len(posts) - 1) : posts[i] = "RequestError"
    /\ (posts # <<>> /\ posts[Len(posts)] # "RequestError") => mcp_pc = "returned"
    /\ (posts # <<>> /\ posts[1] # "RequestError") => Len(posts) = 1
    /\ (posts # <<>> /\ posts[Len(posts)] = "rpc_error") =>
          /\ mcp_result.returns = "dict"
          /\ mcp_result.keys = {"error"}
          /\ mcp_result.error = mcp_reply.error.message

C10_Witness ==
    /\ mcp_pc = "returned"
    /\ posts = <<"rpc_error">>
    /\ mcp_result.error = "Thermostat unavailable"

\* the last POST of the call was answered with a JSON-RPC result whose first
\* content block is text that json.loads rejects
InvalidJsonPayload ==
    /\ posts # <<>>
    /\ posts[Len(posts)] = "rpc_result"
    /\ mcp_reply.content # <<>>
    /\ mcp_reply.content[1].type = "text"
    /\ json_loads(mcp_reply.content[1].text) = JSONDecodeError

\* C11: call_tool never raises on a tool result whose text payload is not
\* valid JSON: it returns the dict with the keys error, raw_text and
\* parse_error, raw_text being the received text unchanged, and the text is
\* never returned as if it were the decoded payload.
C11_InvalidJsonPayloadIsErrorResult ==
    InvalidJsonPayload =>
        /\ mcp_pc = "returned"
        /\ mcp_result.returns = "dict"
        /\ mcp_result.keys = {"error", "raw_text", "parse_error"}
        /\ mcp_result.error = "Invalid JSON response"
        /\ mcp_result.raw_text = mcp_reply.content[1].text
        /\ mcp_result.parse_error # ""
        /\ mcp_result.payload = NoValue

C11_Witness ==
    /\ InvalidJsonPayload
    /\ mcp_pc = "returned"
    /\ mcp_result.raw_text = BadJson.v

\* C12: every reply received by call_tool is returned in one of three
\* shapes: the payload decoded from the text, {"error": message}, or the
\* invalid-JSON error dict with the raw text.
C12_ReplyClassifiedInThreeShapes ==
    (mcp_pc = "returned" /\ posts # <<>> /\ posts[Len(posts)] # "RequestError") =>
        \/ mcp_result.returns = "payload"
        \/ /\ mcp_result.returns = "dict"
           /\ mcp_result.keys = {"error"}
        \/ /\ mcp_result.returns = "dict"
           /\ mcp_result.keys = {"error", "raw_text", "parse_error"}

\* the request of method m of this initialize succeeded: a POST of it was
\* answered with a JSON-RPC result
Succeeded(m) ==
    \E i \in 1..Len(sent) : sent[i].method = m /\ sent[i].outcome = "rpc_result"

\* the last POST of this initialize ended in a network or protocol fault
EndedInFault ==
    /\ sent # <<>>
    /\ sent[Len(sent)].outcome # "rpc_result"
    /\ mcp_pc \notin {"init_post", "init_sleep"}

\* C13: initialize POSTs initialize before tools/list and tools/list only
\* after initialize succeeded; it returns True, with the returned tool
\* list cached, only when both requests succeeded, and returns False
\* without raising on any network or protocol fault.
C13_InitializeHandshake ==
    /\ \A i, j \in 1..Len(sent) :
          (sent[i].method = "tools/list" /\ sent[j].method = "initialize") => j < i
    /\ (\E i \in 1..Len(sent) : sent[i].method = "tools/list") => Succeeded("initialize")
    /\ init_returns = "True" => (Succeeded("initialize") /\ Succeeded("tools/list"))
    /\ init_returns # "True" => self_tools = {}
    /\ EndedInFault => init_returns = "False"
    /\ mcp_pc # "raised"

(***************************************************************************)
(* Properties of the provider factory (SpecFactory, SpecRegistry)          *)
(***************************************************************************)
\* the first of the values that is neither missing nor empty
FirstNonEmpty(a, b, c, d) ==
    IF a \notin {Absent, ""} THEN a
    ELSE IF b \notin {Absent, ""} THEN b
    ELSE IF c \notin {Absent, ""} THEN c
    ELSE d

Canonical(name) ==
    IF name \in {"chatgpt", "gpt"} THEN "openai"
    ELSE IF name = "claude" THEN "anthropic"
    ELSE IF name = "gemini" THEN "google"
    ELSE name

\* C14: two callers of create_llm_provider on an empty registry: neither
\* looks a name up in a partially populated registry, neither gets an
\* "Unknown LLM provider" error for a backend whose library is installed,
\* and once both are through the registry holds what one sequential first
\* use registers.
C14_ConcurrentFirstUseIsSafe ==
    /\ \A t \in threads :
          /\ f_pc[t] = "lookup" => DOMAIN PROVIDER_REGISTRY = installed
          /\ f_out[t].kind = "Unknown LLM provider" => f_provider[t] \notin installed
    /\ (\A t \in threads : f_pc[t] \in {"returned", "raised"}) => DOMAIN PROVIDER_REGISTRY = installed

\* C16: the provider name is the first non-empty of provider_type,
\* settings["llm_provider"], LLM_PROVIDER and "ollama", lower-cased and
\* mapped through the alias table before the lookup, so that an alias gets
\* the adapter of its canonical id.
C16_ProviderNameResolution ==
    \A t \in threads :
        f_pc[t] # "idle" =>
            /\ f_provider[t] =
                  Canonical(Lower(FirstNonEmpty(f_args[t].provider_type,
                                                f_args[t].settings.llm_provider,
                                                environ.LLM_PROVIDER, "ollama")))
            /\ f_out[t].kind = "provider" => f_out[t].provider = f_provider[t]

\* C17: model, timeout and API key are each the first non-empty of the
\* explicit argument, the stored setting, the environment variable and the
\* provider's default; an explicitly passed value is the one the provider
\* is constructed with.
C17_ExplicitArgumentsWin ==
    \A t \in threads :
        f_out[t].kind = "provider" =>
            LET a == f_args[t]
                kw(k) == IF k \in a.kwargs.keys THEN a.kwargs[k] ELSE Absent
            IN  /\ f_out[t].model =
                      FirstNonEmpty(a.model, a.settings.llm_model, environ.MODEL,
                                    DEFAULT_MODELS(f_provider[t]))
                /\ "timeout" \in a.kwargs.keys => f_out[t].timeout = a.kwargs.timeout
                /\ "timeout" \notin a.kwargs.keys =>
                      f_out[t].timeout =
                         Float(FirstNonEmpty(a.settings.llm_timeout, environ.LLM_TIMEOUT,
                                             Absent, "120"))
                /\ "api_key" \in a.kwargs.keys => f_out[t].api_key = a.kwargs.api_key
                /\ ("api_key" \notin a.kwargs.keys /\ f_provider[t] # "ollama") =>
                      f_out[t].api_key =
                         FirstNonEmpty(a.settings.api_key, environ.API_KEY, Absent, Absent)

\* C18: a name that is not registered once the registry is populated ends
\* the call in the "Unknown LLM provider" error, which names the requested
\* id and lists the registered ids; no provider is constructed, the
\* registry is what it was, and a later call for a registered name is served.
C18_UnknownProviderError ==
    /\ [](\A t \in threads :
            /\ (f_pc[t] \in {"returned", "raised"}
                  /\ f_provider[t] \notin DOMAIN PROVIDER_REGISTRY) =>
                    /\ f_pc[t] = "raised"
                    /\ f_out[t].kind = "Unknown LLM provider"
                    /\ f_out[t].provider = f_provider[t]
                    /\ f_out[t].available = DOMAIN PROVIDER_REGISTRY
                    /\ DOMAIN PROVIDER_REGISTRY = installed
            /\ (t \in f_unknown /\ f_pc[t] \in {"returned", "raised"}
                  /\ f_provider[t] \in installed) =>
                    f_out[t].kind # "Unknown LLM provider")
    /\ [][\A t \in threads :
            (f_pc[t] = "lookup" /\ f_pc'[t] = "raised") =>
                PROVIDER_REGISTRY' = PROVIDER_REGISTRY]_vars

C18_Witness ==
    /\ 1 \in f_unknown
    /\ f_pc[1] = "returned"
    /\ f_out[1].kind = "provider"
    /\ f_out[1].provider = "openai"
    /\ installed = {"ollama", "openai"}

====
